---- MODULE Spec2Model ----
(***************************************************************************)
(* The streaming /generate-zip pipeline of the video normalizer server:    *)
(* batched fetch of the videos to temp files, archive assembly, upload of  *)
(* the archive with retry, completion notification and temp-file cleanup.  *)
(* One run of the handler is modelled, a step being the code between two   *)
(* awaits; next to it, the periodic cleanup of /tmp and the files of a     *)
(* second request handled at the same time. Further specifications vary    *)
(* the filenames, what is signed and what the store answers, and let a     *)
(* remote server close a connection in mid-response. The two older         *)
(* handlers of the same endpoint, which build the archive in memory, have  *)
(* specifications of their own over the same state. Time is in seconds.    *)
(***************************************************************************)
EXTENDS Integers, Sequences, FiniteSets, TLC

(* ---------------------------------------------------------------- bounds *)

\* Longest video list of a request.
MaxVideos == 6

\* Longest video list of a request under the timed upload specification.
MaxVideosTimed == 1

\* Longest video list of a request under the archive specification.
MaxVideosArchive == 3

\* Longest time one upload attempt is followed for.
MaxAttemptSecs == 1

\* Latest a backoff timer fires after its delay has elapsed.
MaxTimerLag == 1

\* Longest video list of a request under the sweep specification.
MaxVideosSweep == 1

\* The step by which time passes under the sweep specification.
SweepTickSecs == 1800

\* Latest time at which the sweep specification lets time pass.
MaxSweepClock == 5400

\* Longest video list of a request under the two-request specification.
MaxVideosPeer == 2

\* Latest clock value under the two-request specification.
MaxPeerClock == 1

\* Longest video list of a request under the fetch specification.
MaxVideosFetch == 2

\* The step by which time passes under the fetch specification.
FetchTickSecs == 150

\* Latest time at which the fetch specification lets time pass.
MaxFetchClock == 600

\* Longest filename under the filename specification.
MaxNameLen == 2

\* Longest video list of a request under the store specification.
MaxVideosStore == 1

\* Longest video list of a request under the aborted-response specification.
MaxVideosAbort == 2

\* Longest video list of a request to the router variant.
MaxVideosRouter == 6

\* Longest video list of a request to the in-memory variant.
MaxVideosMemory == 6

(* ----------------------------------------------------- program constants *)

batchSize == 5

maxRetries == 3

\* setTimeout(resolve, 2000 * attempt)
backoffSecs == 2

\* downloadToFile(video.r2SignedUrl, tempPath, 300000)
fetchTimeoutSecs == 300

\* timeout: 3600000 of the upload request
uploadTimeoutSecs == 3600

\* const maxAge = 60 * 60 * 1000
sweepMaxAgeSecs == 3600

\* setInterval(..., 30 * 60 * 1000)
sweepIntervalSecs == 1800

\* X-Amz-Expires=3600
urlExpiresSecs == 3600

\* archiver('zip', { store: true }): the archiver's statConcurrency option is
\* left at its default, 4 workers on its fs stat queue.
statConcurrency == 4

(* ------------------------------------------------------------- inputs *)

\* Filenames as sequences of one-character strings.
Names ==
  << <<"a", " ", "b", ".", "m", "p", "4">>,
     <<"c", ".", "m", "p", "4">>,
     <<"a", "/", "b", ".", "m", "p", "4">> >>

\* The k-th video (0-based) of a request body. What its r2SignedUrl answers is
\* the remote server's choice, made in DownloadSettle.
VideoAt(k) == [filename |-> Names[(k % Len(Names)) + 1]]

\* The request bodies: the lists of 0..max videos.
VideoLists(max) == {[k \in 1..n |-> VideoAt(k - 1)] : n \in 0..max}

(* -------------------------------------------------------------- state *)

VARIABLES
  videos,           \* req.body.videos
  pc,               \* position of the handler
  i,                \* the batch loop's index
  task,             \* position of each batchPromises callback, by video index
  taskPath,         \* tempPath of each callback
  taskResult,       \* what each settled callback returned
  lastActivity,     \* when each fetch's socket last saw data, written to its file
  rejected,         \* the videos whose downloadToFile or fs.stat rejected
  downloadResults,  \* the aggregated results
  tempFiles,        \* the run's recorded temp files
  zipPath,          \* the archive's path, NoPath while null
  zipFile,          \* the archive file: closed, last written, its read streams
  archive,          \* the entries appended to the archive
  r2Config,         \* req.body.r2Config, once the handler has read it
  productCode,      \* req.body.productCode, once the handler has read it
  uploadUrl,        \* the signed URL, NoUrl before signing
  attempt,          \* attempt parameter of uploadZipToR2WithRetry
  attemptStart,     \* when the running attempt's request was sent
  timerDue,         \* when the backoff timer is due
  uploadLog,        \* the upload attempts made, with start, end and outcome
  error,            \* the caught error's message
  webhook,          \* req.body.notificationWebhook, once the handler has read it
  notifications,    \* the webhook calls made
  response,         \* the HTTP response sent
  files,            \* the paths that exist under /tmp
  peer,             \* another run of the handler, in progress at the same time
  lastSweep,        \* when the cleanup interval's callback last ran
  now               \* Date.now()

vars ==
  <<videos, pc, i, task, taskPath, taskResult, rejected, downloadResults,
    tempFiles, zipPath, archive, uploadUrl, attempt, attemptStart, timerDue, uploadLog, error,
    webhook,
    notifications, response, files, now, lastActivity, zipFile, peer, lastSweep,
    r2Config, productCode>>

fetchVars ==
  <<task, taskPath, taskResult, lastActivity, rejected, downloadResults, tempFiles, i>>
uploadVars ==
  <<r2Config, productCode, uploadUrl, attempt, attemptStart, timerDue, uploadLog>>
envVars == <<peer, lastSweep>>

NoPath == [kind |-> "none"]
NoUrl == [signed |-> FALSE]
NoResponse ==
  [status |-> 0, success |-> FALSE, videosCount |-> 0, error |-> <<>>, keys |-> {}]
NoError == <<>>
NoZipFile == [closed |-> FALSE, mtime |-> 0, stream |-> 0, open |-> FALSE, offset |-> 0]
NoPeer == [pc |-> "idle", path |-> NoPath, zip |-> NoPath]
NoConfig == [read |-> FALSE]
NoProduct == <<>>
NoSweep == -1

\* path.join('/tmp', `video_${Date.now()}_${i + idx}.mp4`)
VideoPath(ts, k) == [kind |-> "video", ts |-> ts, idx |-> k]

\* path.join('/tmp', `zip_${Date.now()}.zip`)
ZipPath(ts) == [kind |-> "zip", ts |-> ts]

Indices == 0..(Len(videos) - 1)

Min(a, b) == IF a < b THEN a ELSE b

\* videos.slice(i, i + batchSize), as video indices
BatchOf(start) == {k \in Indices : start <= k /\ k < start + batchSize}

Settled(k) == task[k] = "done"

BatchSettledAny(start) == \E k \in BatchOf(start) : Settled(k)

\* await Promise.all(batchPromises): no callback rejects, so it resolves when
\* every callback of the batch has settled.
BatchSettled(start) == \A k \in BatchOf(start) : Settled(k)

RECURSIVE InOrder(_, _, _)
\* The array Promise.all resolves to: the results by position in the batch.
InOrder(res, k, end) ==
  IF k >= end THEN <<>> ELSE <<res[k]>> \o InOrder(res, k + 1, end)

\* downloadResults.filter(r => r.success)
Successful(results) == SelectSeq(results, LAMBDA r : r.success)

\* downloadResults.filter(r => !r.success)
Failed(results) == SelectSeq(results, LAMBDA r : ~r.success)

NoAssetsAnyFailed(results) == Len(Failed(results)) > 0

NoAssetsNever(results) == FALSE

\* if (successfulDownloads.length === 0) throw
NoAssets(results) == Len(Successful(results)) = 0

NoAssetsMessage == <<"Nenhum video foi baixado com sucesso">>

AllowedChars ==
  {"a", "b", "c", "d", "e", "f", "g", "h", "i", "j", "k", "l", "m", "n", "o",
   "p", "q", "r", "s", "t", "u", "v", "w", "x", "y", "z",
   "A", "B", "C", "D", "E", "F", "G", "H", "I", "J", "K", "L", "M", "N", "O",
   "P", "Q", "R", "S", "T", "U", "V", "W", "X", "Y", "Z",
   "0", "1", "2", "3", "4", "5", "6", "7", "8", "9", ".", "_", "-"}

cleanFilenameDropping(name) == SelectSeq(name, LAMBDA c : c \in AllowedChars)

cleanFilenameFirst(name) ==
  [j \in 1..Len(name) |->
     IF name[j] \notin AllowedChars /\ \A h \in 1..(j - 1) : name[h] \in AllowedChars
       THEN "_" ELSE name[j]]

\* video.filename.replace(/[^a-zA-Z0-9._-]/g, '_')
cleanFilename(name) ==
  [j \in 1..Len(name) |-> IF name[j] \in AllowedChars THEN name[j] ELSE "_"]

\* The orders in which the lstat calls of `count` queued files can complete:
\* the identity when they complete as queued, else every order in which a file
\* completes only once started, at most statConcurrency calls running at a time.
StatOrders(count, asQueued) ==
  IF asQueued THEN {[j \in 1..count |-> j]}
  ELSE {order \in [1..count -> 1..count] :
          /\ \A a, b \in 1..count : a # b => order[a] # order[b]
          /\ \A j \in 1..count : order[j] <= j - 1 + statConcurrency}

\* The entry archive.file(tempPath, { name: cleanFilename }) asks for.
EntryOf(r) ==
  [name |-> cleanFilename(videos[r.idx + 1].filename), src |-> r.tempPath]

RECURSIVE LastWins(_, _, _)
LastWins(successful, order, present) ==
  IF order = <<>> THEN <<>>
  ELSE LET r == successful[Head(order)]
           rest == LastWins(successful, Tail(order), present)
       IN IF r.tempPath \notin present
             \/ \E j \in 1..Len(rest) : rest[j].name = EntryOf(r).name
            THEN rest
            ELSE <<EntryOf(r)>> \o rest

RECURSIVE ArchiveEntries(_, _, _)
\* archive.file(tempPath, { name }) for each successful download, in order, then
\* archive.finalize(). The archiver stats each queued file on its stat queue and
\* appends it to the archive when its lstat has completed: the entries are in
\* the order `order` in which the lstat calls completed. A file that cannot be
\* stat-ed is skipped with a 'warning' event, to which nothing listens.
ArchiveEntries(successful, order, present) ==
  IF order = <<>> THEN <<>>
  ELSE LET r == successful[Head(order)]
           rest == ArchiveEntries(successful, Tail(order), present)
       IN IF r.tempPath \in present THEN <<EntryOf(r)>> \o rest ELSE rest

SeqRange(s) == {s[j] : j \in 1..Len(s)}

CleanupPathsNoZip(recorded, zip) == SeqRange(recorded)

VideosCountAll(results) == Len(results)

\* videosCount: successfulDownloads.length
VideosCount(results) == Len(Successful(results))

\* res.json({ success: true, zipPath, zipPublicUrl, zipSizeBytes, videosCount,
\* processingTimeSeconds })
SuccessBody(results) ==
  [status |-> 200, success |-> TRUE, videosCount |-> VideosCount(results),
   error |-> <<>>,
   keys |-> {"success", "zipPath", "zipPublicUrl", "zipSizeBytes", "videosCount",
             "processingTimeSeconds"}]

\* res.status(500).json({ success: false, error: error.message })
FailureBody(message) ==
  [status |-> 500, success |-> FALSE, videosCount |-> 0, error |-> message,
   keys |-> {"success", "error"}]

\* for (const tempFile of tempFiles) await fs.unlink(tempFile);
\* [if (zipPath)] await fs.unlink(zipPath)
CleanupPaths(recorded, zip) == SeqRange(recorded) \cup {zip}

(* ------------------------------------------------ the object store's answers *)

TimeoutError == [code |-> "none", message |-> <<"Timeout", "no", "upload", "para", "R2">>]

\* new Error(`Upload falhou: ${res.statusCode} - ${responseData}`)
StatusError(status, body) ==
  [code |-> "none", message |-> <<"Upload", "falhou:", ToString(status), "-">> \o body]

NetError(code) == [code |-> code, message |-> <<code>>]

\* How an upload attempt ends: a response with a status and a body, a request
\* error, or the request timeout. Texts are sequences of words.
Answer(kind, status, body, code) ==
  [kind |-> kind, status |-> status, body |-> body, code |-> code]

BasicAnswers ==
  { Answer("status", 200, <<>>, "none"),
    Answer("status", 403, <<"AccessDenied">>, "none"),
    Answer("timeout", 0, <<>>, "none") }

MoreAnswers ==
  { Answer("status", 403, <<"Request", "Timeout">>, "none"),
    Answer("status", 500, <<"InternalError">>, "none"),
    Answer("error", 0, <<>>, "ECONNRESET"),
    Answer("error", 0, <<>>, "EPROTO"),
    Answer("error", 0, <<>>, "ETIMEDOUT") }

\* res.statusCode >= 200 && res.statusCode < 300
Resolves(answer) ==
  answer.kind = "status" /\ answer.status >= 200 /\ answer.status < 300

\* The error the attempt's promise rejects with.
ErrorOf(answer) ==
  IF answer.kind = "status" THEN StatusError(answer.status, answer.body)
  ELSE IF answer.kind = "timeout" THEN TimeoutError
  ELSE NetError(answer.code)

\* error.message.includes(word)
Includes(message, word) == \E j \in 1..Len(message) : message[j] = word

ShouldRetryOnce(n, err) ==
  /\ n < maxRetries - 1
  /\ (err.code = "EPROTO" \/ err.code = "ECONNRESET" \/ Includes(err.message, "Timeout"))

ShouldRetryOneMore(n, err) ==
  /\ n <= maxRetries
  /\ (err.code = "EPROTO" \/ err.code = "ECONNRESET" \/ Includes(err.message, "Timeout"))

\* attempt < maxRetries && (error.code === 'EPROTO' || error.code === 'ECONNRESET'
\*   || error.message.includes('Timeout'))
ShouldRetry(n, err) ==
  /\ n < maxRetries
  /\ (err.code = "EPROTO" \/ err.code = "ECONNRESET" \/ Includes(err.message, "Timeout"))

BackoffDelayFlat(n) == backoffSecs

\* 2000 * attempt
BackoffDelay(n) == backoffSecs * n

(* -------------------------------------------------------------- actions *)

\* The state of the handler when it is called.
JobInit ==
  /\ pc = "start"
  /\ i = 0
  /\ task = [k \in Indices |-> "idle"]
  /\ taskPath = [k \in Indices |-> NoPath]
  /\ taskResult = [k \in Indices |-> [success |-> FALSE, idx |-> k, tempPath |-> NoPath]]
  /\ lastActivity = [k \in Indices |-> 0]
  /\ rejected = {}
  /\ downloadResults = <<>>
  /\ tempFiles = <<>>
  /\ zipPath = NoPath
  /\ zipFile = NoZipFile
  /\ archive = <<>>
  /\ r2Config = NoConfig
  /\ productCode = NoProduct
  /\ uploadUrl = NoUrl
  /\ attempt = 0
  /\ attemptStart = 0
  /\ timerDue = 0
  /\ uploadLog = <<>>
  /\ error = NoError
  /\ webhook = "unread"
  /\ notifications = <<>>
  /\ response = NoResponse
  /\ peer = NoPeer
  /\ lastSweep = NoSweep
  /\ now = 0

Init ==
  /\ videos \in VideoLists(MaxVideos)
  /\ files = {}
  /\ JobInit

\* The loop head with index `start` and aggregated results `results`, up to the
\* next await: the next batch's callbacks run to their first await (write stream
\* created, request sent); or, the loop over, the results are filtered and either
\* the no-assets error is thrown or the archive's write stream is created and the
\* files are queued.
LoopHead(start, results) ==
  IF start < Len(videos)
    THEN /\ task' = [k \in Indices |->
                       IF k \in BatchOf(start) THEN "downloading" ELSE task[k]]
         /\ taskPath' = [k \in Indices |->
                           IF k \in BatchOf(start) THEN VideoPath(now, k) ELSE taskPath[k]]
         /\ lastActivity' = [k \in Indices |->
                               IF k \in BatchOf(start) THEN now ELSE lastActivity[k]]
         /\ files' = files \cup {VideoPath(now, k) : k \in BatchOf(start)}
         /\ pc' = "awaitBatch"
         /\ UNCHANGED <<zipPath, zipFile, error>>
    ELSE IF NoAssets(results)
      THEN /\ pc' = "catch"
           /\ error' = NoAssetsMessage
           /\ UNCHANGED <<task, taskPath, lastActivity, files, zipPath, zipFile>>
      ELSE /\ pc' = "finalize"
           /\ zipPath' = ZipPath(now)
           /\ zipFile' = [NoZipFile EXCEPT !.mtime = now]
           /\ files' = files \cup {ZipPath(now)}
           /\ UNCHANGED <<task, taskPath, lastActivity, error>>

InvalidNever(vs) == FALSE

\* const { videos = [], ... } = req.body; if (!videos || videos.length === 0):
\* `videos` is the destructured value, the empty list when the field is
\* missing.
Invalid(vs) == Len(vs) = 0

\* res.status(400).json({ error: 'Nenhum vídeo fornecido' }): the body has no
\* other field. `keys` are the field names of the JSON body.
InvalidBody ==
  [status |-> 400, success |-> FALSE, videosCount |-> 0,
   error |-> <<"Nenhum video fornecido">>, keys |-> {"error"}]

\* The handler is called: validation, then the first batch.
Start ==
  /\ pc = "start"
  /\ IF Invalid(videos)
       THEN /\ pc' = "done"
            /\ response' = InvalidBody
            /\ UNCHANGED <<task, taskPath, lastActivity, files, zipPath, zipFile, error>>
       ELSE /\ LoopHead(0, <<>>)
            /\ UNCHANGED response
  /\ UNCHANGED <<videos, i, taskResult, rejected, downloadResults, tempFiles,
                 archive, webhook, notifications, now>>
  /\ UNCHANGED uploadVars
  /\ UNCHANGED envVars

\* How downloadToFile settles: it resolves on the write stream's 'finish', or it
\* rejects on a status other than 200, on a request error, on a write-stream
\* error or on the request's 'timeout' event.
FetchFailures == {"status", "network", "stream", "timeout"}

BasicOutcomes == {"ok", "status"}

MoreOutcomes == {"network", "stream", "timeout"}

AfterRejectKeepsOnTimeout(outcome, path, dir) ==
  IF outcome = "timeout" THEN dir ELSE dir \ {path}

\* fileStream.close(); fs.unlink(outputPath).catch(() => {}); reject(...), the
\* same in the four failure branches: the directory once the unlink has run.
AfterReject(outcome, path, dir) == dir \ {path}

\* req.on('timeout'): `timeout: timeoutMs` of the request options is the
\* socket's idle timeout; the event is emitted when the socket has seen no
\* activity for timeoutMs.
TimedOut(k) == now - lastActivity[k] >= fetchTimeoutSecs

\* downloadToFile settles for video k with `outcome`; on a failure the file has
\* been unlinked when the promise rejects.
DownloadSettle(k, outcome) ==
  /\ task[k] = "downloading"
  /\ outcome = "timeout" => TimedOut(k)
  /\ IF outcome = "ok"
       THEN /\ task' = [task EXCEPT ![k] = "stat"]
            /\ UNCHANGED <<files, rejected>>
       ELSE /\ task' = [task EXCEPT ![k] = outcome]
            /\ files' = AfterReject(outcome, taskPath[k], files)
            /\ rejected' = rejected \cup {k}
  /\ UNCHANGED <<videos, pc, i, taskPath, taskResult, lastActivity, downloadResults,
                 tempFiles, zipPath, zipFile, archive, error, webhook, notifications,
                 response, now>>
  /\ UNCHANGED uploadVars
  /\ UNCHANGED envVars

\* await fs.stat(tempPath) settles: the path is recorded and the callback returns
\* { success: true }; when stat rejects, the catch block is entered.
StatSettle(k) ==
  /\ task[k] = "stat"
  /\ \/ /\ taskPath[k] \in files
        /\ task' = [task EXCEPT ![k] = "done"]
        /\ tempFiles' = Append(tempFiles, taskPath[k])
        /\ taskResult' = [taskResult EXCEPT ![k] =
                            [success |-> TRUE, idx |-> k, tempPath |-> taskPath[k]]]
        /\ UNCHANGED rejected
     \/ /\ task' = [task EXCEPT ![k] = "statFailed"]
        /\ rejected' = rejected \cup {k}
        /\ UNCHANGED <<tempFiles, taskResult>>
  /\ UNCHANGED <<videos, pc, i, taskPath, lastActivity, downloadResults, zipPath, zipFile,
                 archive, error, webhook, notifications, response, files, now>>
  /\ UNCHANGED uploadVars
  /\ UNCHANGED envVars

\* catch: await fs.unlink(tempPath).catch(() => {}); return { success: false }
UnlinkSettle(k) ==
  /\ task[k] \in FetchFailures \cup {"statFailed"}
  /\ task' = [task EXCEPT ![k] = "done"]
  /\ files' = files \ {taskPath[k]}
  /\ UNCHANGED <<videos, pc, i, taskPath, taskResult, lastActivity, rejected,
                 downloadResults, tempFiles, zipPath, zipFile, archive, error, webhook,
                 notifications, response, now>>
  /\ UNCHANGED uploadVars
  /\ UNCHANGED envVars

\* const results = await Promise.all(batchPromises);
\* downloadResults.push(...results); then the loop head again.
BatchDone ==
  /\ pc = "awaitBatch"
  /\ BatchSettled(i)
  /\ LET results == downloadResults
                      \o InOrder(taskResult, i, Min(i + batchSize, Len(videos)))
     IN /\ downloadResults' = results
        /\ i' = i + batchSize
        /\ LoopHead(i + batchSize, results)
  /\ UNCHANGED <<videos, taskResult, rejected, tempFiles, archive, webhook,
                 notifications, response, now>>
  /\ UNCHANGED uploadVars
  /\ UNCHANGED envVars

\* `Cannot read properties of undefined (reading 'bucketName')`
NoConfigMessage == <<"TypeError">>

ArchiveErrorMessage == <<"archive">>

\* await archive.finalize() settles: the archiver has appended the queued files
\* and written the archive out to zipOutput; it rejects on an archiver error.
\* `asQueued`: the archiver's lstat calls complete in the order queued.
Finalize(asQueued) ==
  /\ pc = "finalize"
  /\ \/ /\ \E order \in StatOrders(Len(Successful(downloadResults)), asQueued) :
             archive' = ArchiveEntries(Successful(downloadResults), order, files)
        /\ zipFile' = [zipFile EXCEPT !.mtime = now]
        /\ pc' = "closing"
        /\ UNCHANGED error
     \/ /\ pc' = "catch"
        /\ error' = ArchiveErrorMessage
        /\ UNCHANGED <<archive, zipFile>>
  /\ UNCHANGED <<videos, webhook, notifications, response, files, now, zipPath>>
  /\ UNCHANGED fetchVars
  /\ UNCHANGED uploadVars
  /\ UNCHANGED envVars

\* zipOutput emits 'close': the archive file is written out and closed.
ZipClosed ==
  /\ pc = "closing"
  /\ ~zipFile.closed
  /\ zipFile' = [zipFile EXCEPT !.closed = TRUE]
  /\ UNCHANGED <<videos, pc, zipPath, archive, error, webhook, notifications,
                 response, files, now>>
  /\ UNCHANGED fetchVars
  /\ UNCHANGED uploadVars
  /\ UNCHANGED envVars

\* await new Promise((resolve, reject) => { zipOutput.on('close', resolve); ... })
ArchiveReady(zf) == zf.closed

ReuseReadStream(zf, exists) ==
  IF zf.stream = 0
    THEN [zf EXCEPT !.stream = 1, !.open = exists, !.offset = 0]
    ELSE zf

\* const fileStream = fsSync.createReadStream(zipPath): a new stream, reading
\* from offset 0; its open fails when the path does not exist.
OpenReadStream(zf, exists) ==
  [zf EXCEPT !.stream = @ + 1, !.open = exists, !.offset = 0]

\* The size of the archive file: one unit for each entry and one for the end
\* record.
ZipSize == Len(archive) + 1

\* How far the read stream has been consumed when the attempt settles: the
\* whole file when the store has answered or has stopped answering, nothing
\* when the connection failed.
BytesSent(answer) == IF answer.kind = "error" THEN 0 ELSE ZipSize

\* Texts that are taken apart again, URLs and their parts, are sequences of
\* tokens: a name, a number or a delimiter each.

\* req.body.r2Config: { accountId, accessKeyId, secretAccessKey, bucketName }
Config(keyId, secret) ==
  [accountId |-> <<"acct">>, bucketName |-> <<"bkt">>,
   accessKeyId |-> keyId, secretAccessKey |-> secret]

BasicConfigs == {Config("AK1", "SK1")}

MoreConfigs == {Config("AK2", "SK2")}

\* req.body.productCode: a plain code, and codes that hold a URL delimiter.
BasicProducts == {<<"P">>}

MoreProducts == {<<"P", "#", "1">>, <<"P", "?", "1">>}

\* req.body.userId, req.body.projectId
userId == <<"user">>

projectId == <<"proj">>

\* r2.cloudflarestorage.com
StoreHost == <<"r2", ".", "cloudflarestorage", ".", "com">>

HostBucketFirst(cfg) == cfg.bucketName \o <<".">> \o cfg.accountId \o <<".">> \o StoreHost

\* const host = `${r2Config.accountId}.r2.cloudflarestorage.com`
Host(cfg) == cfg.accountId \o <<".">> \o StoreHost

\* const zipFilename = `${productCode}_${projectId}_${Date.now()}.zip`;
\* const r2Path = `zips/${userId}/${zipFilename}`
R2Path(product, t) ==
  <<"zips", "/">> \o userId \o <<"/">> \o product \o <<"_">> \o projectId
    \o <<"_", ToString(t), ".zip">>

\* const canonicalUri = `/${bucket}/${r2Path}`
CanonicalUri(cfg, product, t) ==
  <<"/">> \o cfg.bucketName \o <<"/">> \o R2Path(product, t)

\* const credential = `${accessKeyId}/${dateStamp}/${region}/${service}/aws4_request`,
\* through encodeURIComponent
Credential(cfg, t) ==
  <<cfg.accessKeyId, "%2F", ToString(t), "%2F", "auto", "%2F", "s3", "%2F",
    "aws4_request">>

\* const queryParams = `X-Amz-Algorithm=...&X-Amz-Credential=...&X-Amz-Date=...
\*   &X-Amz-Expires=3600&X-Amz-SignedHeaders=host`
QueryParams(cfg, t) ==
  <<"X-Amz-Algorithm", "=", "AWS4-HMAC-SHA256", "&", "X-Amz-Credential", "=">>
    \o Credential(cfg, t)
    \o <<"&", "X-Amz-Date", "=", ToString(t),
         "&", "X-Amz-Expires", "=", ToString(urlExpiresSecs),
         "&", "X-Amz-SignedHeaders", "=", "host">>

\* The hex digest of the HMAC chain over the string to sign: a token that
\* stands for the key and for what was signed.
Signature(cfg, product, t) ==
  ToString([key |-> cfg.secretAccessKey, date |-> t,
            canonicalRequest |-> <<"PUT">> \o CanonicalUri(cfg, product, t)
                                   \o QueryParams(cfg, t) \o Host(cfg)])

\* const uploadUrl = `https://${host}${canonicalUri}?${queryParams}
\*   &X-Amz-Signature=${signature}`
UploadUrl(cfg, product, t) ==
  <<"https://">> \o Host(cfg) \o CanonicalUri(cfg, product, t) \o <<"?">>
    \o QueryParams(cfg, t)
    \o <<"&", "X-Amz-Signature", "=", Signature(cfg, product, t)>>

\* The position of the first `tok` in `text`, Len(text) + 1 when there is none.
FirstIndex(text, tok) ==
  IF \E j \in 1..Len(text) : text[j] = tok
    THEN CHOOSE j \in 1..Len(text) :
           text[j] = tok /\ \A h \in 1..(j - 1) : text[h] # tok
    ELSE Len(text) + 1

\* new URL(uploadUrl): the fragment starts at the first '#', the query at the
\* first '?' before it, the path at the first '/' after the host.
ParseUrl(href) ==
  LET noFragment == SubSeq(href, 1, FirstIndex(href, "#") - 1)
      q == FirstIndex(noFragment, "?")
      rest == SubSeq(noFragment, 2, q - 1)
      slash == FirstIndex(rest, "/")
  IN [hostname |-> SubSeq(rest, 1, slash - 1),
      pathname |-> SubSeq(rest, slash, Len(rest)),
      search |-> SubSeq(noFragment, q, Len(noFragment))]

\* const options = { method: 'PUT', hostname: url.hostname,
\*   path: url.pathname + url.search, headers: { 'Content-Type': 'application/zip',
\*   'Content-Length': zipSizeBytes }, ... }
RequestOptions(href, size) ==
  LET url == ParseUrl(href)
  IN [method |-> "PUT", hostname |-> url.hostname,
      pathname |-> url.pathname, search |-> url.search,
      contentType |-> "application/zip", contentLength |-> size]

\* The wait for 'close' is over and await fs.stat(zipPath) settles. Then, up to
\* the next await: the URL is signed and the first upload attempt is started
\* (read stream opened, request sent). productCode and r2Config are read here
\* for the first time: a request without r2Config throws.
BeginUpload(configs, products) ==
  /\ pc = "closing"
  /\ ArchiveReady(zipFile)
  /\ IF zipPath \notin files
       THEN /\ pc' = "catch"
            /\ error' = NetError("ENOENT").message
            /\ UNCHANGED <<r2Config, productCode, uploadUrl, attempt, attemptStart,
                           zipFile>>
       ELSE \/ \E cfg \in configs, product \in products :
                 /\ r2Config' = cfg
                 /\ productCode' = product
                 /\ uploadUrl' = [signed |-> TRUE, amzDate |-> now,
                                  expires |-> urlExpiresSecs,
                                  href |-> UploadUrl(cfg, product, now)]
                 /\ attempt' = 1
                 /\ attemptStart' = now
                 /\ zipFile' = OpenReadStream(zipFile, zipPath \in files)
                 /\ pc' = "sending"
                 /\ UNCHANGED error
            \/ /\ pc' = "catch"
               /\ error' = NoConfigMessage
               /\ UNCHANGED <<r2Config, productCode, uploadUrl, attempt, attemptStart,
                              zipFile>>
  /\ UNCHANGED <<videos, zipPath, archive, webhook, notifications, response, files, now,
                 timerDue, uploadLog>>
  /\ UNCHANGED fetchVars
  /\ UNCHANGED envVars

\* The running attempt's promise settles with the store's answer; a read stream
\* that could not open the archive rejects it with ENOENT. On a rejection the
\* catch of uploadZipToR2WithRetry arms the backoff timer or rethrows.
UploadSettle(answer) ==
  /\ pc = "sending"
  /\ LET ok == zipFile.open /\ Resolves(answer)
         err == IF zipFile.open THEN ErrorOf(answer) ELSE NetError("ENOENT")
     IN /\ uploadLog' = Append(uploadLog,
                          [n |-> attempt, start |-> attemptStart, end |-> now,
                           readable |-> zipFile.open, ok |-> ok,
                           answer |-> answer,
                           stream |-> zipFile.stream, from |-> zipFile.offset,
                           request |-> RequestOptions(uploadUrl.href, ZipSize)])
        /\ zipFile' = [zipFile EXCEPT !.offset = IF zipFile.open THEN BytesSent(answer)
                                                  ELSE @]
        /\ IF ok
             THEN /\ pc' = "notify"
                  /\ UNCHANGED <<timerDue, error>>
             ELSE IF ShouldRetry(attempt, err)
               THEN /\ pc' = "backoff"
                    /\ timerDue' = now + BackoffDelay(attempt)
                    /\ UNCHANGED error
               ELSE /\ pc' = "catch"
                    /\ error' = err.message
                    /\ UNCHANGED timerDue
  /\ UNCHANGED <<videos, zipPath, archive, r2Config, productCode, uploadUrl, attempt,
                 attemptStart, webhook, notifications, response, files, now>>
  /\ UNCHANGED fetchVars
  /\ UNCHANGED envVars

\* The backoff timer fires: return uploadZipToR2WithRetry(..., attempt + 1), whose
\* read stream is opened and whose request is sent at once.
RetryUpload ==
  /\ pc = "backoff"
  /\ now >= timerDue
  /\ attempt' = attempt + 1
  /\ attemptStart' = now
  /\ zipFile' = OpenReadStream(zipFile, zipPath \in files)
  /\ pc' = "sending"
  /\ UNCHANGED <<videos, zipPath, archive, r2Config, productCode, uploadUrl, timerDue,
                 uploadLog, error, webhook, notifications, response, files, now>>
  /\ UNCHANGED fetchVars
  /\ UNCHANGED envVars

\* Time passes while the backoff timer runs.
TickBackoff ==
  /\ pc = "backoff"
  /\ now < timerDue
  /\ now' = now + 1
  /\ UNCHANGED <<videos, pc, zipPath, zipFile, archive, error, webhook, notifications,
                 response, files>>
  /\ UNCHANGED fetchVars
  /\ UNCHANGED uploadVars
  /\ UNCHANGED envVars

\* Time passes while an upload attempt is in progress.
TickSending ==
  /\ pc = "sending"
  /\ now - attemptStart < MaxAttemptSecs
  /\ now' = now + 1
  /\ UNCHANGED <<videos, pc, zipPath, zipFile, archive, error, webhook, notifications,
                 response, files>>
  /\ UNCHANGED fetchVars
  /\ UNCHANGED uploadVars
  /\ UNCHANGED envVars

\* Time passes before a due timer's callback runs.
TickLate ==
  /\ pc = "backoff"
  /\ now >= timerDue
  /\ now < timerDue + MaxTimerLag
  /\ now' = now + 1
  /\ UNCHANGED <<videos, pc, zipPath, zipFile, archive, error, webhook, notifications,
                 response, files>>
  /\ UNCHANGED fetchVars
  /\ UNCHANGED uploadVars
  /\ UNCHANGED envVars

\* How a webhook call ends: a 2xx status, another status, a request error or the
\* 10 s request timeout.
WebhookOutcomes == {"2xx", "non2xx", "error", "timeout"}

\* sendWebhookNotification: resolves on a status of 200..299, rejects on any
\* other status, on a request error and on the timeout.
Delivered(outcome) == outcome = "2xx"

AfterNotifyThrows(delivered) == IF delivered THEN "cleanup" ELSE "catch"

\* try { await sendWebhookNotification(...) } catch (notifyError) { console.error }
\* Where the handler goes on once the success notification has settled.
AfterNotify(delivered) == "cleanup"

\* The success notification's payload: { jobId, projectId, userId, zipPath,
\* zipPublicUrl, zipSizeBytes, videosCount, processingTimeMs }. `keys` are the
\* field names of the JSON document.
SuccessPayload(results, delivered) ==
  [kind |-> "success", videosCount |-> VideosCount(results), error |-> NoError,
   delivered |-> delivered,
   keys |-> {"jobId", "projectId", "userId", "zipPath", "zipPublicUrl",
             "zipSizeBytes", "videosCount", "processingTimeMs"}]

\* The failure notification's payload: { jobId, projectId, userId, error }
FailurePayload(message, delivered) ==
  [kind |-> "error", videosCount |-> 0, error |-> message, delivered |-> delivered,
   keys |-> {"jobId", "projectId", "userId", "error"}]

NotifiedAlways(log, hook, payload) == Append(log, payload)

\* if (notificationWebhook) { try { await sendWebhookNotification(hook, payload) }
\* catch {} }: the webhook calls made once this statement is over.
Notified(log, hook, payload) ==
  IF hook = "present" THEN Append(log, payload) ELSE log

\* if (notificationWebhook) { try { await sendWebhookNotification(...) } catch {} }
\* The webhook field is read here for the first time; a delivery that fails is
\* logged and swallowed.
Notify ==
  /\ pc = "notify"
  /\ \E hook \in {"absent", "present"}, outcome \in WebhookOutcomes :
       /\ webhook' = hook
       /\ notifications' =
            Notified(notifications, hook,
                     SuccessPayload(downloadResults, Delivered(outcome)))
       /\ pc' = IF hook = "present" THEN AfterNotify(Delivered(outcome))
                ELSE "cleanup"
  /\ UNCHANGED <<videos, zipPath, zipFile, archive, error, response, files, now>>
  /\ UNCHANGED fetchVars
  /\ UNCHANGED uploadVars
  /\ UNCHANGED envVars

\* Success tail: the temp files and the archive are unlinked, then res.json(...).
CleanupRespond ==
  /\ pc = "cleanup"
  /\ files' = files \ CleanupPaths(tempFiles, zipPath)
  /\ response' = SuccessBody(downloadResults)
  /\ pc' = "done"
  /\ UNCHANGED <<videos, zipPath, zipFile, archive, error, webhook, notifications, now>>
  /\ UNCHANGED fetchVars
  /\ UNCHANGED uploadVars
  /\ UNCHANGED envVars

CatchPathsRecordedOnly(recorded, zip) == SeqRange(recorded)

\* catch: for (const tempFile of tempFiles) await fs.unlink(tempFile);
\* if (zipPath) await fs.unlink(zipPath)
CatchPaths(recorded, zip) ==
  IF zip # NoPath THEN CleanupPaths(recorded, zip) ELSE SeqRange(recorded)

\* catch (error): the temp files are unlinked, and the archive if (zipPath).
CatchCleanup ==
  /\ pc = "catch"
  /\ files' = files \ CatchPaths(tempFiles, zipPath)
  /\ pc' = "catchNotify"
  /\ UNCHANGED <<videos, zipPath, zipFile, archive, error, webhook, notifications,
                 response, now>>
  /\ UNCHANGED fetchVars
  /\ UNCHANGED uploadVars
  /\ UNCHANGED envVars

\* catch (error), continued: the failure notification if a webhook was given,
\* then res.status(500).json({ success: false, error: error.message }).
CatchNotifyRespond ==
  /\ pc = "catchNotify"
  /\ \E hook \in {"absent", "present"}, outcome \in WebhookOutcomes :
       /\ webhook' = hook
       /\ notifications' =
            Notified(notifications, hook, FailurePayload(error, Delivered(outcome)))
  /\ response' = FailureBody(error)
  /\ pc' = "done"
  /\ UNCHANGED <<videos, zipPath, zipFile, archive, error, files, now>>
  /\ UNCHANGED fetchVars
  /\ UNCHANGED uploadVars
  /\ UNCHANGED envVars

Next ==
  \/ Start
  \/ \E k \in Indices, outcome \in BasicOutcomes : DownloadSettle(k, outcome)
  \/ \E k \in Indices : StatSettle(k)
  \/ \E k \in Indices : UnlinkSettle(k)
  \/ BatchDone
  \/ Finalize(TRUE)
  \/ ZipClosed
  \/ BeginUpload(BasicConfigs, BasicProducts)
  \/ \E answer \in BasicAnswers : UploadSettle(answer)
  \/ RetryUpload
  \/ TickBackoff
  \/ Notify
  \/ CleanupRespond
  \/ CatchCleanup
  \/ CatchNotifyRespond

Spec == Init /\ [][Next]_vars

\* The upload in full: every answer of the store, attempts that take time and
\* timers that fire late, for the short requests.
InitTimed == Init /\ Len(videos) <= MaxVideosTimed

NextTimed ==
  \/ Next
  \/ \E answer \in MoreAnswers : UploadSettle(answer)
  \/ TickSending
  \/ TickLate

SpecTimed == InitTimed /\ [][NextTimed]_vars

\* The archive in full: every order in which the archiver's stat queue can
\* complete, for the short requests.
InitArchive == Init /\ Len(videos) <= MaxVideosArchive

NextArchive ==
  \/ Next
  \/ Finalize(FALSE)

SpecArchive == InitArchive /\ [][NextArchive]_vars

(* ------------------------------------------------- the fetches in time *)

\* response.pipe(fileStream): data arrives on the socket of fetch k and is
\* written to its file.
Receive(k) ==
  /\ task[k] = "downloading"
  /\ lastActivity[k] < now
  /\ lastActivity' = [lastActivity EXCEPT ![k] = now]
  /\ UNCHANGED <<videos, pc, i, task, taskPath, taskResult, rejected, downloadResults,
                 tempFiles, zipPath, zipFile, archive, error, webhook, notifications,
                 response, files, now>>
  /\ UNCHANGED uploadVars
  /\ UNCHANGED envVars

\* The fetches in progress.
Downloading == {k \in Indices : task[k] = "downloading"}

\* When the first 'timeout' event of a fetch in progress is due.
NextTimeout ==
  LET due(k) == lastActivity[k] + fetchTimeoutSecs
      first == CHOOSE k \in Downloading : \A j \in Downloading : due(k) <= due(j)
  IN due(first)

\* Time passes while fetches are in progress, by one step or up to the time the
\* first 'timeout' event is due.
TickFetch ==
  /\ pc = "awaitBatch"
  /\ Downloading # {}
  /\ now < MaxFetchClock
  /\ now < NextTimeout
  /\ now' = Min(now + FetchTickSecs, NextTimeout)
  /\ UNCHANGED <<videos, pc, zipPath, zipFile, archive, error, webhook, notifications,
                 response, files>>
  /\ UNCHANGED fetchVars
  /\ UNCHANGED uploadVars
  /\ UNCHANGED envVars

\* The fetches in full: every way a fetch fails, data that arrives over time.
InitFetch == Init /\ Len(videos) <= MaxVideosFetch

NextFetch ==
  \/ Next
  \/ \E k \in Indices, outcome \in MoreOutcomes : DownloadSettle(k, outcome)
  \/ \E k \in Indices : Receive(k)
  \/ TickFetch

SpecFetch == InitFetch /\ [][NextFetch]_vars

(* ------------------------------------------------- the periodic cleanup *)

\* Base names are sequences of characters, a timestamp or an index being one
\* element.
PrefixNormalized == <<"n", "o", "r", "m", "a", "l", "i", "z", "e", "d", "_">>
PrefixUpload == <<"u", "p", "l", "o", "a", "d", "_">>
PrefixInput == <<"i", "n", "p", "u", "t", "_">>
PrefixCompressed == <<"c", "o", "m", "p", "r", "e", "s", "s", "e", "d", "_">>
PrefixVideo == <<"v", "i", "d", "e", "o", "_">>
PrefixZip == <<"z", "i", "p", "_">>

\* file.startsWith('normalized_') || ... || file.startsWith('zip_')
KnownPrefixes ==
  {PrefixNormalized, PrefixUpload, PrefixInput, PrefixCompressed, PrefixVideo, PrefixZip}

\* file.startsWith(prefix)
StartsWith(name, prefix) ==
  /\ Len(name) >= Len(prefix)
  /\ \A j \in 1..Len(prefix) : name[j] = prefix[j]

\* A file of /tmp that no run of the handler has made, last modified at `mtime`.
Other(name, mtime) == [kind |-> "other", name |-> name, ts |-> mtime]

\* The base name of a path: `video_${Date.now()}_${i + idx}.mp4`,
\* `zip_${Date.now()}.zip`, or the name of another file.
FileName(p) ==
  IF p.kind = "video"
    THEN PrefixVideo \o <<ToString(p.ts), "_", ToString(p.idx), ".", "m", "p", "4">>
  ELSE IF p.kind = "zip"
    THEN PrefixZip \o <<ToString(p.ts), ".", "z", "i", "p">>
  ELSE p.name

\* stats.mtimeMs: a fetched file was last written when its socket last saw
\* data, the archive when the archiver wrote it out, another file at `ts`.
MTime(p) ==
  IF p.kind = "video" /\ p.idx \in Indices /\ taskPath[p.idx] = p
    THEN lastActivity[p.idx]
  ELSE IF p = zipPath THEN zipFile.mtime
  ELSE p.ts

SweepTargetsAtLeast(dir, t) ==
  {p \in dir : /\ \E prefix \in KnownPrefixes : StartsWith(FileName(p), prefix)
               /\ t - MTime(p) >= sweepMaxAgeSecs}

\* The files one run of the interval's callback unlinks: those of the listing
\* with a known prefix for which now - stats.mtimeMs > maxAge.
SweepTargets(dir, t) ==
  {p \in dir : /\ \E prefix \in KnownPrefixes : StartsWith(FileName(p), prefix)
               /\ t - MTime(p) > sweepMaxAgeSecs}

\* The interval's callback runs, every 30 minutes from the start of the
\* process: readdir('/tmp'), then stat and unlink file by file, errors swallowed.
Sweep ==
  /\ lastSweep = NoSweep \/ now - lastSweep >= sweepIntervalSecs
  /\ lastSweep' = now
  /\ files' = files \ SweepTargets(files, now)
  /\ UNCHANGED <<videos, pc, zipPath, zipFile, archive, error, webhook, notifications,
                 response, peer, now>>
  /\ UNCHANGED fetchVars
  /\ UNCHANGED uploadVars

\* Time passes while fetches are receiving data, or while an upload attempt
\* that has not reached its timeout is in progress.
TickSweep ==
  /\ now < MaxSweepClock
  /\ \/ pc = "awaitBatch" /\ \E k \in Indices : task[k] = "downloading"
     \/ pc = "sending" /\ now - attemptStart < uploadTimeoutSecs
  /\ now' = now + SweepTickSecs
  /\ lastActivity' = [k \in Indices |->
                        IF task[k] = "downloading" THEN now + SweepTickSecs
                        ELSE lastActivity[k]]
  /\ UNCHANGED <<videos, pc, i, task, taskPath, taskResult, rejected, downloadResults,
                 tempFiles, zipPath, zipFile, archive, error, webhook, notifications,
                 response, files>>
  /\ UNCHANGED uploadVars
  /\ UNCHANGED envVars

\* /tmp when the request arrives: files of earlier runs and of other programs,
\* two hours, one hour and five minutes old.
TmpDir ==
  { Other(PrefixZip \o <<"O", "L", "D">>, -7200),
    Other(PrefixZip \o <<"N", "E", "W">>, -300),
    Other(PrefixUpload \o <<"1">>, -3600),
    Other(PrefixNormalized \o <<"1">>, -7200),
    Other(PrefixInput \o <<"1">>, -7200),
    Other(PrefixCompressed \o <<"1">>, -7200),
    Other(PrefixVideo \o <<"1">>, -7200),
    Other(<<"k", "e", "e", "p", "m", "e", ".", "t", "x", "t">>, -7200),
    Other(<<"z", "i", "p", "p", "e", "r">>, -7200),
    Other(<<"v", "i", "d", "e", "o", ".", "m", "p", "4">>, -7200),
    Other(<<"m", "y", "_">> \o PrefixZip, -7200),
    Other(<<"Z", "i", "p", "_", "1">>, -7200) }

\* The handler next to the periodic cleanup, over long times.
InitSweep ==
  /\ videos \in VideoLists(MaxVideosSweep)
  /\ files = TmpDir
  /\ JobInit

NextSweep ==
  \/ Next
  \/ Sweep
  \/ TickSweep

SpecSweep == InitSweep /\ [][NextSweep]_vars

(* ---------------------------------------------------- a second request *)

\* Another request to /generate-zip, with one video, is handled by the same
\* process while the first is in progress. Its handler is the same code; of its
\* state only the files it makes are kept.

\* The other request's first batch: its tempPath is
\* `video_${Date.now()}_${0}.mp4`, which createWriteStream creates or truncates.
PeerStart ==
  /\ peer.pc = "idle"
  /\ pc # "start"
  /\ peer' = [pc |-> "fetching", path |-> VideoPath(now, 0), zip |-> NoPath]
  /\ files' = files \cup {VideoPath(now, 0)}
  /\ UNCHANGED <<videos, pc, zipPath, zipFile, archive, error, webhook, notifications,
                 response, lastSweep, now>>
  /\ UNCHANGED fetchVars
  /\ UNCHANGED uploadVars

\* The other request's fetch settles: the file is stat-ed and recorded, or it is
\* unlinked and, no video being fetched, the request is answered.
PeerFetchSettle ==
  /\ peer.pc = "fetching"
  /\ \/ /\ peer.path \in files
        /\ peer' = [peer EXCEPT !.pc = "recorded"]
        /\ UNCHANGED files
     \/ /\ peer' = [peer EXCEPT !.pc = "done"]
        /\ files' = files \ {peer.path}
  /\ UNCHANGED <<videos, pc, zipPath, zipFile, archive, error, webhook, notifications,
                 response, lastSweep, now>>
  /\ UNCHANGED fetchVars
  /\ UNCHANGED uploadVars

\* The other request creates its archive, `zip_${Date.now()}.zip`.
PeerArchive ==
  /\ peer.pc = "recorded"
  /\ peer' = [peer EXCEPT !.pc = "uploading", !.zip = ZipPath(now)]
  /\ files' = files \cup {ZipPath(now)}
  /\ UNCHANGED <<videos, pc, zipPath, zipFile, archive, error, webhook, notifications,
                 response, lastSweep, now>>
  /\ UNCHANGED fetchVars
  /\ UNCHANGED uploadVars

\* The other request ends, in the success tail or in the catch block: its
\* recorded file and its archive are unlinked.
PeerEnd ==
  /\ peer.pc = "uploading"
  /\ peer' = [peer EXCEPT !.pc = "done"]
  /\ files' = files \ CleanupPaths(<<peer.path>>, peer.zip)
  /\ UNCHANGED <<videos, pc, zipPath, zipFile, archive, error, webhook, notifications,
                 response, lastSweep, now>>
  /\ UNCHANGED fetchVars
  /\ UNCHANGED uploadVars

\* The clock advances to its next value while the first request is in progress.
TickClock ==
  /\ pc \notin {"start", "done"}
  /\ now < MaxPeerClock
  /\ now' = now + 1
  /\ UNCHANGED <<videos, pc, zipPath, zipFile, archive, error, webhook, notifications,
                 response, files>>
  /\ UNCHANGED fetchVars
  /\ UNCHANGED uploadVars
  /\ UNCHANGED envVars

\* Two requests in progress at the same time.
InitPeer == Init /\ Len(videos) <= MaxVideosPeer

NextPeer ==
  \/ Next
  \/ PeerStart
  \/ PeerFetchSettle
  \/ PeerArchive
  \/ PeerEnd
  \/ TickClock

SpecPeer == InitPeer /\ [][NextPeer]_vars

(* -------------------------------------------------- an aborted response *)

\* The connection of fetch k is closed by the remote server after the headers
\* of a 200 response, before the end of the body. The response is destroyed and
\* emits 'aborted' and 'close', and 'error' to no listener; response.pipe does
\* not end fileStream, so 'finish' never comes; the request emits no 'error'
\* once it has a response, and no 'timeout' on a closed socket. None of the
\* handlers of downloadToFile runs: its promise stays pending and the file
\* stays.
Abort(k) ==
  /\ task[k] = "downloading"
  /\ task' = [task EXCEPT ![k] = "aborted"]
  /\ UNCHANGED <<videos, pc, i, taskPath, taskResult, lastActivity, rejected,
                 downloadResults, tempFiles, zipPath, zipFile, archive, error, webhook,
                 notifications, response, files, now>>
  /\ UNCHANGED uploadVars
  /\ UNCHANGED envVars

\* The handler with remote servers that close a connection in mid-response.
InitAbort == Init /\ Len(videos) <= MaxVideosAbort

NextAbort ==
  \/ Next
  \/ \E k \in Indices : Abort(k)

SpecAbort == InitAbort /\ [][NextAbort]_vars

(* ------------------------------------------------------------ the store *)

\* An answer of the store that repeats what the request was signed with: the
\* SignatureDoesNotMatch document of an S3-compatible store names the access
\* key id of the request.
EchoAnswers(cfg) ==
  IF cfg = NoConfig THEN {}
  ELSE {Answer("status", 403, <<"SignatureDoesNotMatch", cfg.accessKeyId>>, "none")}

\* The upload in full as to what is signed and sent: every configuration and
\* product code, a store that repeats the request in its answer.
InitStore == Init /\ Len(videos) <= MaxVideosStore

NextStore ==
  \/ Next
  \/ BeginUpload(MoreConfigs, BasicProducts \cup MoreProducts)
  \/ BeginUpload(BasicConfigs, MoreProducts)
  \/ \E answer \in EchoAnswers(r2Config) : UploadSettle(answer)

SpecStore == InitStore /\ [][NextStore]_vars

(* -------------------------------------------------------- the filenames *)

\* The characters filenames are made of: a letter of each case, a digit, the
\* three punctuation marks of the pattern, a space, a slash and a letter
\* outside ASCII, written by its code point.
NameChars == {"a", "Z", "7", ".", "_", "-", " ", "/", "U+00E9"}

\* video.filename: the strings of at most `max` characters.
NameStrings(max) == UNION {[1..n -> NameChars] : n \in 0..max}

\* Requests of one video, of any filename.
InitNames ==
  /\ \E name \in NameStrings(MaxNameLen) : videos = <<[filename |-> name]>>
  /\ files = {}
  /\ JobInit

SpecNames == InitNames /\ [][Next]_vars

(* --------------------------------------------------------------- claims *)

\* A fetch that has started and whose callback has not settled.
InFlight(k) == task[k] \notin {"idle", "done"}

FetchPhase == pc \in {"start", "awaitBatch"}

SuccessCount == Cardinality({k \in Indices : taskResult[k].success})

\* The temp paths this run has created.
RunPaths == ({taskPath[k] : k \in Indices} \cup {zipPath}) \ {NoPath}

\* C1: the fetches are started batch by batch in input order, five to a batch:
\* never more than 5 fetches of the job are in flight, a fetch is started only
\* after every fetch before it in the list was started, and no fetch of a later
\* batch is started before every fetch of the earlier batches has settled.
C1_BatchesRunOneAfterAnother ==
  /\ Cardinality({k \in Indices : InFlight(k)}) <= 5
  /\ \A a, b \in Indices :
       /\ (a < b /\ task[b] # "idle") => task[a] # "idle"
       /\ ((a \div 5) < (b \div 5) /\ task[b] # "idle") => Settled(a)

\* A fetch of the second batch is running, after a first batch of which one fetch
\* failed.
C1_Witness ==
  /\ \E b \in Indices : b >= 5 /\ task[b] = "downloading"
  /\ \E a \in rejected : a < 5

\* C2: a failed fetch is recorded as a failed result and propagates no further:
\* while any fetch of the job is unsettled the handler is still waiting for its
\* batch (nothing was thrown, no response sent), every batch is run whatever
\* failed before it, and once the fetches are over with at least one success
\* the archive has been set up and the no-assets error has not been raised.
C2_FetchFailureIsContained ==
  /\ \A k \in rejected : Settled(k) => ~taskResult[k].success
  /\ (\E k \in Indices : InFlight(k)) =>
       (pc = "awaitBatch" /\ error = NoError /\ response = NoResponse)
  /\ (~FetchPhase /\ Len(videos) > 0) =>
       /\ Len(downloadResults) = Len(videos)
       /\ \A k \in Indices : Settled(k)
       /\ \A k \in rejected : ~downloadResults[k + 1].success
  /\ (~FetchPhase /\ SuccessCount > 0) =>
       (zipPath # NoPath /\ error # NoAssetsMessage)

\* A fetch of the first batch and one of the second have failed, another has
\* succeeded, and the archive is being assembled.
C2_Witness ==
  /\ pc = "finalize"
  /\ \E a, b \in rejected : a < 5 /\ b >= 5
  /\ SuccessCount > 0

\* C3: the aggregated results are in input order, whatever the order in which
\* the fetches of a batch completed, and the archive's entries are those of the
\* successfully fetched videos, in input order. (The archiver's stat queue
\* breaks the second half.)
C3_InputOrderIsKept ==
  /\ \A j \in 1..Len(downloadResults) : downloadResults[j].idx = j - 1
  /\ \A a, b \in 1..Len(archive) : a < b => archive[a].src.idx < archive[b].src.idx
  /\ archive # <<>> =>
       {archive[j].src : j \in 1..Len(archive)}
         = {taskPath[k] : k \in {x \in Indices : taskResult[x].success}}

\* The names of the catalogue, sanitized: a_b.mp4, c.mp4, a_b.mp4.
SanitizedNames ==
  << <<"a", "_", "b", ".", "m", "p", "4">>,
     <<"c", ".", "m", "p", "4">>,
     <<"a", "_", "b", ".", "m", "p", "4">> >>

\* C4: with k of the n fetches failed, k < n, the job fails only through a later
\* stage (never with the no-assets error), and when it succeeds the archive
\* holds exactly n - k entries, one for each successful fetch, each named by
\* the sanitized filename of its video, also when names collide.
C4_OneEntryPerSuccessfulFetch ==
  LET n == Len(videos)
      k == Cardinality(rejected)
  IN /\ (pc = "done" /\ n > 0 /\ k < n) =>
          /\ response.status \in {200, 500}
          /\ response.status = 500 => response.error # NoAssetsMessage
     /\ response.status = 200 =>
          /\ k < n
          /\ Len(archive) = n - k
          /\ response.videosCount = n - k
          /\ \A x \in Indices \ rejected :
               Cardinality({j \in 1..Len(archive) : archive[j].src = taskPath[x]}) = 1
          /\ \A j \in 1..Len(archive) :
               archive[j].name = SanitizedNames[(archive[j].src.idx % 3) + 1]

\* A job succeeded with a failed fetch and with two entries of the same name.
C4_Witness ==
  /\ response.status = 200
  /\ rejected # {}
  /\ \E a, b \in 1..Len(archive) : a # b /\ archive[a].name = archive[b].name

AllRejected == Len(videos) >= 1 /\ rejected = Indices /\ \A k \in Indices : Settled(k)

\* C5: when every fetch of the job has failed, no archive file is ever created,
\* nothing is signed and no upload attempt is made, and the job ends with the
\* no-assets error and HTTP 500.
C5_NoAssetsNoArchive ==
  AllRejected =>
    /\ zipPath = NoPath
    /\ \A p \in files : p.kind # "zip"
    /\ archive = <<>>
    /\ ~uploadUrl.signed
    /\ attempt = 0 /\ uploadLog = <<>>
    /\ pc \in {"awaitBatch", "catch", "catchNotify", "done"}
    /\ pc # "awaitBatch" => error = NoAssetsMessage
    /\ pc = "done" =>
         /\ response.status = 500 /\ ~response.success
         /\ response.error = NoAssetsMessage

\* A job of two batches, all of whose fetches failed, has been answered.
C5_Witness == AllRejected /\ Len(videos) > 5 /\ pc = "done"

\* C6: once the response of a run is sent, on success or after a failure at any
\* stage, none of the temp files the run created exists.
C6_NoTempFileSurvivesTheRun ==
  response # NoResponse => (pc = "done" /\ RunPaths \cap files = {})

\* A run that recorded fetched files and created the archive, and then failed in
\* the upload, has been answered.
C6_Witness ==
  /\ response.status = 500
  /\ Len(tempFiles) >= 2
  /\ rejected # {}
  /\ zipPath # NoPath
  /\ uploadLog # <<>>

\* An attempt that failed with a transient error: connection reset, protocol or
\* TLS failure, or the request timeout.
TransientFailure(e) ==
  /\ ~e.ok
  /\ e.readable
  /\ \/ e.answer.kind = "timeout"
     \/ e.answer.kind = "error" /\ e.answer.code \in {"ECONNRESET", "EPROTO"}

\* An attempt answered with an HTTP 4xx status.
ClientErrorAnswer(e) ==
  e.answer.kind = "status" /\ e.answer.status >= 400 /\ e.answer.status < 500

JobFailed == pc \in {"catch", "catchNotify"} \/ (pc = "done" /\ response.status = 500)

\* C7: a transient failure of attempt 1 or 2 does not fail the job but leads to
\* the next attempt; a successful attempt is the last one; and a job whose
\* attempts 1 and 2 failed with transient errors and whose attempt 3 succeeded
\* has made exactly 3 attempts and succeeds.
C7_TransientFailuresAreRetried ==
  /\ \A a \in 1..Len(uploadLog) :
       /\ uploadLog[a].n = a
       /\ uploadLog[a].ok =>
            (a = Len(uploadLog) /\ attempt = a /\ pc \in {"notify", "cleanup", "done"})
       /\ (TransientFailure(uploadLog[a]) /\ a < 3) =>
            \/ a < Len(uploadLog)
            \/ pc = "backoff" /\ attempt = a
            \/ pc = "sending" /\ attempt = a + 1
  /\ ( /\ Len(uploadLog) = 3
       /\ TransientFailure(uploadLog[1])
       /\ TransientFailure(uploadLog[2])
       /\ uploadLog[3].ok ) =>
         /\ attempt = 3
         /\ ~JobFailed
         /\ pc = "done" => (response.status = 200 /\ response.success)

\* Two timed-out or reset attempts, a third that succeeded, and the job answered
\* with success.
C7_Witness ==
  /\ Len(uploadLog) = 3
  /\ TransientFailure(uploadLog[1])
  /\ TransientFailure(uploadLog[2])
  /\ uploadLog[1].answer # uploadLog[2].answer
  /\ uploadLog[3].ok
  /\ response.status = 200

\* C8: never more than 3 upload attempts are made for a job; when all three fail
\* with transient errors the job fails with the error of the third attempt, and
\* HTTP 500.
C8_AtMostThreeAttempts ==
  /\ Len(uploadLog) <= 3
  /\ attempt <= 3
  /\ pc = "sending" => Len(uploadLog) = attempt - 1
  /\ (Len(uploadLog) = 3 /\ \A a \in 1..3 : TransientFailure(uploadLog[a])) =>
       /\ JobFailed
       /\ error = ErrorOf(uploadLog[3].answer).message
       /\ pc = "done" => response.error = ErrorOf(uploadLog[3].answer).message

\* Three attempts failed with transient errors, the third differing from the
\* second, and the job was answered with HTTP 500.
C8_Witness ==
  /\ Len(uploadLog) = 3
  /\ \A a \in 1..3 : TransientFailure(uploadLog[a])
  /\ uploadLog[3].answer # uploadLog[2].answer
  /\ pc = "done"
  /\ response.status = 500

\* C9: an upload attempt answered with an HTTP 4xx status, whatever the body of
\* the response, is the last attempt of the job, and the job fails at once.
C9_ClientErrorIsNeverRetried ==
  \A a \in 1..Len(uploadLog) :
    ClientErrorAnswer(uploadLog[a]) =>
      (a = Len(uploadLog) /\ attempt = a /\ JobFailed)

\* C10: attempt a+1 starts no sooner than 2 seconds times a after attempt a has
\* failed, 2 s before the second attempt and 4 s before the third, the timer
\* being set for exactly that delay at the failure; an attempt starts only after
\* the one before it has ended.
C10_LinearBackoff ==
  /\ \A a \in 1..Len(uploadLog) :
       /\ uploadLog[a].start <= uploadLog[a].end
       /\ a < Len(uploadLog) => uploadLog[a + 1].start >= uploadLog[a].end + 2 * a
  /\ (pc = "sending" /\ attempt > 1) =>
       /\ Len(uploadLog) = attempt - 1
       /\ attemptStart >= uploadLog[attempt - 1].end + 2 * (attempt - 1)
  /\ pc = "backoff" =>
       /\ Len(uploadLog) = attempt
       /\ timerDue = uploadLog[attempt].end + 2 * attempt

\* Three attempts, each taking time, the second started exactly 2 s after the
\* first failed and the third exactly 4 s after the second failed.
C10_Witness ==
  /\ Len(uploadLog) = 3
  /\ uploadLog[1].end > uploadLog[1].start
  /\ uploadLog[2].start = uploadLog[1].end + 2
  /\ uploadLog[2].end > uploadLog[2].start
  /\ uploadLog[3].start = uploadLog[2].end + 4

\* The last upload attempt made was answered with success.
UploadSucceeded == uploadLog # <<>> /\ uploadLog[Len(uploadLog)].ok

\* C11: the outcome of a notification never changes the job's result: however
\* the webhook call ends, or without a webhook, the response has status 200 and
\* success = true exactly when the upload succeeded and status 500 and
\* success = false otherwise, with the caught error as its message; a job that
\* has sent the success notification never fails, and one that has sent the
\* failure notification answers with the error it caught.
C11_NotificationNeverChangesTheResult ==
  /\ (response # NoResponse /\ Len(videos) > 0) =>
       /\ response.success <=> UploadSucceeded
       /\ response.status = (IF UploadSucceeded THEN 200 ELSE 500)
       /\ response.error = error
       /\ UploadSucceeded <=> error = NoError
  /\ \A j \in 1..Len(notifications) :
       /\ notifications[j].kind = "success" => (UploadSucceeded /\ ~JobFailed)
       /\ notifications[j].kind = "error" =>
            (pc = "done" /\ response.status = 500 /\ response.error = notifications[j].error)

\* A job whose success notification was not delivered has answered 200.
C11_Witness ==
  /\ response.status = 200
  /\ response.success
  /\ Len(notifications) = 1
  /\ ~notifications[1].delivered

\* No fetch of the job has lasted longer than the fetch timeout.
FetchesWithinTimeout ==
  \A k \in Indices :
    task[k] # "idle" =>
      /\ lastActivity[k] - taskPath[k].ts <= fetchTimeoutSecs
      /\ task[k] = "downloading" => now - taskPath[k].ts <= fetchTimeoutSecs

\* C12: the periodic cleanup never removes a file the running job owns and will
\* still read, in a job each of whose fetches and upload attempts ends within
\* its timeout: while fetched files are waiting to be archived each recorded
\* file exists, and while the archive is waiting to be closed or a retry of
\* the upload is pending the archive file exists.
C12_SweepSparesFilesInUse ==
  FetchesWithinTimeout =>
    /\ pc \in {"awaitBatch", "finalize"} => SeqRange(tempFiles) \subseteq files
    /\ pc \in {"closing", "backoff"} => zipPath \in files

\* The temp artifacts of the first request that exist: the files of its fetches
\* from their creation until the fetch fails, and its archive, until its cleanup.
JobArtifacts ==
  IF pc \in {"catchNotify", "done"} THEN {}
  ELSE {taskPath[k] : k \in {x \in Indices :
                                \/ task[x] \in {"downloading", "stat", "statFailed"}
                                \/ task[x] = "done" /\ taskResult[x].success}}
       \cup ({zipPath} \ {NoPath})

\* The temp artifacts of the other request that exist.
PeerArtifacts ==
  IF peer.pc \in {"fetching", "recorded", "uploading"}
    THEN {peer.path, peer.zip} \ {NoPath}
    ELSE {}

\* C13: two temp artifacts that exist at the same time have different paths:
\* the fetch files of one request differ from each other and from its archive,
\* and no artifact of one request has the path of an artifact of another
\* request in progress, also when both were created at the same clock value.
C13_ArtifactPathsAreDistinct ==
  /\ \A a, b \in Indices :
       (a # b /\ task[a] # "idle" /\ task[b] # "idle") => taskPath[a] # taskPath[b]
  /\ \A k \in Indices : task[k] # "idle" => taskPath[k] # zipPath
  /\ JobArtifacts \cap PeerArtifacts = {}

\* C14: a request creates and deletes only its own temp files: no step of one
\* request removes, or creates anew, a path that is an artifact of the other
\* request in progress. (The shared paths of C13 break it.)
C14_RequestsTouchOnlyTheirOwnFiles ==
  [][ /\ peer' # peer =>
           /\ (files \ files') \cap JobArtifacts = {}
           /\ (PeerArtifacts' \ PeerArtifacts) \cap JobArtifacts = {}
      /\ (peer' = peer /\ lastSweep' = lastSweep) =>
           /\ (files \ files') \cap PeerArtifacts = {}
           /\ (JobArtifacts' \ JobArtifacts) \cap PeerArtifacts = {} ]_vars

\* The files of /tmp, other than a request's own, whose names start with one of
\* normalized_, upload_, input_, compressed_, video_, zip_.
PrefixedOthers ==
  { Other(<<"z", "i", "p", "_", "O", "L", "D">>, -7200),
    Other(<<"z", "i", "p", "_", "N", "E", "W">>, -300),
    Other(<<"u", "p", "l", "o", "a", "d", "_", "1">>, -3600),
    Other(<<"n", "o", "r", "m", "a", "l", "i", "z", "e", "d", "_", "1">>, -7200),
    Other(<<"i", "n", "p", "u", "t", "_", "1">>, -7200),
    Other(<<"c", "o", "m", "p", "r", "e", "s", "s", "e", "d", "_", "1">>, -7200),
    Other(<<"v", "i", "d", "e", "o", "_", "1">>, -7200) }

\* C15: one run of the periodic cleanup removes exactly the files of /tmp whose
\* name starts with one of the six prefixes and that were last modified more
\* than 3600 s before the run; it leaves the prefixed files that are younger,
\* one exactly 3600 s old included, and the files of any other name, and it
\* creates nothing.
C15_SweepDeletesExactlyOldPrefixedFiles ==
  [][ lastSweep' # lastSweep =>
        /\ files' \subseteq files
        /\ \A p \in files :
             p \notin files' <=>
               /\ p.kind \in {"video", "zip"} \/ p \in PrefixedOthers
               /\ now - MTime(p) > 3600 ]_vars

\* The cleanup has run at time 0, next to a request that is fetching: zip_OLD and the other two-hour-old prefixed
\* files are gone; zip_NEW, upload_1 (exactly one hour old), keepme.txt and the
\* old files whose names only resemble a prefix are still there.
C15_Witness ==
  /\ lastSweep = 0
  /\ pc = "awaitBatch"
  /\ \E k \in Indices : task[k] = "downloading" /\ taskPath[k] \in files
  /\ \A p \in PrefixedOthers : p \in files <=> p.ts >= -3600
  /\ Other(<<"z", "i", "p", "_", "N", "E", "W">>, -300) \in files
  /\ Other(<<"u", "p", "l", "o", "a", "d", "_", "1">>, -3600) \in files
  /\ Other(<<"k", "e", "e", "p", "m", "e", ".", "t", "x", "t">>, -7200) \in files
  /\ Other(<<"z", "i", "p", "p", "e", "r">>, -7200) \in files
  /\ Other(<<"m", "y", "_", "z", "i", "p", "_">>, -7200) \in files

\* C16: every fetch settles within the timeout, counted from its start: no
\* fetch is still in progress more than 300 s after it started, and a fetch
\* that has resolved received its last data within 300 s of its start, also
\* when data kept arriving slowly.
C16_FetchSettlesWithinTimeout ==
  \A k \in Indices :
    /\ task[k] = "downloading" => now - taskPath[k].ts <= 300
    /\ task[k] \in {"stat", "done"} => lastActivity[k] - taskPath[k].ts <= 300

\* The fetches of the job that downloadToFile rejected.
FetchRejected == {k \in rejected : task[k] \in FetchFailures}

\* C17: when a fetch fails, with a status other than 200, a request error,
\* a write-stream error or the timeout, its file has been unlinked by the
\* time the failure reaches the callback; the path of a failed fetch is never
\* in the run's list of temp files; and once its result is aggregated the
\* file does not exist and the result is a failure.
C17_FailedFetchLeavesNoFile ==
  /\ \A k \in Indices : task[k] \in FetchFailures => taskPath[k] \notin files
  /\ \A k \in rejected :
       /\ \A j \in 1..Len(tempFiles) : tempFiles[j] # taskPath[k]
       /\ k < Len(downloadResults) =>
            (taskPath[k] \notin files /\ ~downloadResults[k + 1].success)

\* The first fetch has just failed with the timeout, after data had arrived,
\* and the second, which failed before, has settled.
C17_Witness ==
  /\ Len(videos) = 2
  /\ task[0] = "timeout" /\ lastActivity[0] > 0
  /\ task[1] = "done" /\ 1 \in rejected

\* C18: once a fatal error is caught the remaining stages are skipped: after
\* the no-assets error no archive is made, after an archive or signing error
\* nothing is uploaded, after an upload failure no success notification is
\* sent, and the handler only cleans up, notifies and answers 500. When the
\* failure notification is attempted and when the response is sent, 500 or
\* 200, every recorded temp file and the archive file have been deleted.
C18_CleanupBeforeResponse ==
  /\ error # NoError =>
       /\ pc \in {"catch", "catchNotify", "done"}
       /\ pc = "done" => (response.status = 500 /\ response.error = error)
       /\ error = NoAssetsMessage => (zipPath = NoPath /\ archive = <<>>)
       /\ error \in {NoAssetsMessage, ArchiveErrorMessage, NoConfigMessage} =>
            (attempt = 0 /\ uploadLog = <<>>)
       /\ error = ArchiveErrorMessage => ~uploadUrl.signed
       /\ uploadLog # <<>> => ~uploadLog[Len(uploadLog)].ok
       /\ \A j \in 1..Len(notifications) : notifications[j].kind = "error"
  /\ (pc = "catchNotify" \/ response.status \in {200, 500}) =>
       /\ \A j \in 1..Len(tempFiles) : tempFiles[j] \notin files
       /\ zipPath \notin files

\* A job with two recorded files and an archive has failed at signing and has
\* answered 500.
C18_Witness ==
  /\ pc = "done"
  /\ response.status = 500
  /\ error = NoConfigMessage
  /\ Len(tempFiles) = 2
  /\ zipPath # NoPath

\* The successfully fetched videos that have no entry in the archive.
MissingAssets ==
  {j \in 1..Len(Successful(downloadResults)) :
     \A e \in 1..Len(archive) : archive[e].src # Successful(downloadResults)[j].tempPath}

\* C19: when the file of a successfully fetched video cannot be read while the
\* archive is assembled, the run fails with the archive error and HTTP 500:
\* an archive that lacks a fetched video is never closed, signed or uploaded,
\* and the job never reports success.
C19_UnreadableAssetFailsTheRun ==
  (pc \notin {"start", "awaitBatch", "finalize"} /\ MissingAssets # {}) =>
    /\ JobFailed
    /\ error \in {NoAssetsMessage, ArchiveErrorMessage}
    /\ attempt = 0
    /\ uploadLog = <<>>

\* C20: no upload attempt begins before the archive has been written out and
\* its file closed; each attempt, the first and every retry, opens a read
\* stream of its own on the archive file, positioned at its first byte.
C20_EachAttemptReadsTheClosedArchiveFromItsStart ==
  /\ pc \in {"finalize", "closing"} => (attempt = 0 /\ uploadLog = <<>>)
  /\ attempt >= 1 => zipFile.closed
  /\ pc = "sending" => (zipFile.stream = attempt /\ zipFile.offset = 0)
  /\ \A a \in 1..Len(uploadLog) :
       /\ uploadLog[a].stream = a
       /\ uploadLog[a].from = 0

\* The third attempt is in progress on its own stream, at the first byte, after
\* a first attempt that sent the whole archive and timed out and a second one
\* on which the connection was reset.
C20_Witness ==
  /\ pc = "sending"
  /\ attempt = 3
  /\ zipFile.stream = 3 /\ zipFile.offset = 0 /\ zipFile.open
  /\ uploadLog[1].answer.kind = "timeout"
  /\ uploadLog[2].answer.kind = "error"

\* C21: a request whose videos field is missing or an empty list is answered
\* with HTTP 400 and a body that holds an error text and nothing else, and it
\* causes nothing: no fetch and no temp file, no archive, no signing and no
\* upload attempt, no read of the webhook and no notification.
C21_EmptyRequestIsRejected ==
  Len(videos) = 0 =>
    /\ pc \in {"start", "done"}
    /\ pc = "done" =>
         /\ response.status = 400
         /\ response.keys = {"error"}
         /\ response.error # <<>>
    /\ files = {} /\ tempFiles = <<>> /\ downloadResults = <<>>
    /\ zipPath = NoPath /\ archive = <<>>
    /\ ~uploadUrl.signed /\ attempt = 0 /\ uploadLog = <<>>
    /\ webhook = "unread" /\ notifications = <<>>
    /\ error = NoError

\* A request with no videos has been answered.
C21_Witness == Len(videos) = 0 /\ pc = "done" /\ response.status = 400

\* C22: every response of a job that passed validation has the success field:
\* status 200 and success = true exactly when at least one video was fetched,
\* the archive was written out and the upload succeeded, videosCount then being
\* the number of fetched videos (1 for two videos of which the second failed);
\* otherwise status 500, success = false and an error text.
C22_ResponseCarriesSuccess ==
  (response # NoResponse /\ Len(videos) > 0) =>
    /\ "success" \in response.keys
    /\ response.status \in {200, 500}
    /\ response.status = 200 <=> response.success
    /\ response.success <=> (SuccessCount >= 1 /\ zipFile.closed /\ UploadSucceeded)
    /\ response.success =>
         /\ "videosCount" \in response.keys
         /\ response.videosCount = SuccessCount
         /\ (Len(videos) = 2 /\ rejected = {1}) => response.videosCount = 1
    /\ ~response.success =>
         /\ "error" \in response.keys
         /\ response.error # <<>>

\* Of two videos, "a b.mp4" and "c.mp4", the second was answered with a status
\* other than 200; the job has succeeded with the one entry a_b.mp4.
C22_Witness ==
  /\ Len(videos) = 2
  /\ rejected = {1}
  /\ response.status = 200
  /\ response.videosCount = 1
  /\ Len(archive) = 1
  /\ archive[1].name = <<"a", "_", "b", ".", "m", "p", "4">>

\* The characters of NameChars that are in [A-Za-z0-9._-].
SafeChars == {"a", "Z", "7", ".", "_", "-"}

\* C23: the name asked for an archive entry has the length of the video's
\* filename; at each position it has the filename's character when that is in
\* [A-Za-z0-9._-] and '_' otherwise; it holds only characters of
\* [A-Za-z0-9._-].
C23_SanitizedNameIsCharacterwise ==
  \A e \in 1..Len(archive) :
    LET x == videos[archive[e].src.idx + 1].filename
        y == archive[e].name
    IN /\ Len(y) = Len(x)
       /\ \A j \in 1..Len(x) :
            /\ x[j] \in SafeChars => y[j] = x[j]
            /\ x[j] \notin SafeChars => y[j] = "_"
            /\ y[j] \in SafeChars

\* The video named "Z/" is archived as "Z_".
C23_Witness ==
  /\ videos[1].filename = <<"Z", "/">>
  /\ Len(archive) = 1
  /\ archive[1].name = <<"Z", "_">>

\* C24: sanitization is total and idempotent: every successfully fetched video,
\* whatever its filename, the empty one included, gets its entry name, and
\* sanitizing that name again gives the same name.
C24_SanitizeIsIdempotent ==
  /\ (pc \in {"closing", "sending", "notify", "cleanup"} /\ SuccessCount = 1) =>
       Len(archive) = 1
  /\ \A e \in 1..Len(archive) :
       /\ Len(archive[e].name) = Len(videos[archive[e].src.idx + 1].filename)
       /\ cleanFilename(archive[e].name) = archive[e].name

\* A filename with two different characters outside the pattern has been
\* sanitized, and the sanitized name is its own sanitization.
C24_Witness ==
  /\ videos[1].filename = <<" ", "/">>
  /\ Len(archive) = 1
  /\ archive[1].name = <<"_", "_">>
  /\ cleanFilename(archive[1].name) = archive[1].name

\* The credential material of the run: the access key id, the secret key and
\* the signature of the pre-signed URL.
CredentialWords ==
  IF r2Config = NoConfig THEN {}
  ELSE {r2Config.accessKeyId, r2Config.secretAccessKey,
        Signature(r2Config, productCode, uploadUrl.amzDate)}

\* C25: the error text of the HTTP 500 response and of the failure notification
\* holds no credential material of the store configuration, whatever the store
\* answers, also when its answer repeats the access key id: the text is then
\* the same for two runs that differ in their credentials only.
C25_ErrorTextHoldsNoCredential ==
  \A w \in CredentialWords :
    /\ ~Includes(response.error, w)
    /\ \A j \in 1..Len(notifications) : ~Includes(notifications[j].error, w)

\* The parameter names of a query string: of each part between '&', the tokens
\* before its '='.
QueryNames(search) ==
  { LET rest == SubSeq(search, j, Len(search))
    IN SubSeq(rest, 1, Min(FirstIndex(rest, "="), FirstIndex(rest, "&")) - 1) :
      j \in {h \in 2..Len(search) : h = 2 \/ search[h - 1] = "&"} }

SigningNames ==
  { <<"X-Amz-Algorithm">>, <<"X-Amz-Credential">>, <<"X-Amz-Date">>,
    <<"X-Amz-Expires">>, <<"X-Amz-SignedHeaders">>, <<"X-Amz-Signature">> }

\* The object key of the run: zips/{userId}/{productCode}_{projectId}_{time}.zip
ObjectKey ==
  <<"zips", "/", "user", "/">> \o productCode
    \o <<"_", "proj", "_", ToString(uploadUrl.amzDate), ".zip">>

\* The product code holds no URL delimiter.
PlainProduct == \A j \in 1..Len(productCode) : productCode[j] \notin {"#", "?"}

PlainReportKeys ==
  {"success", "jobId", "projectId", "userId", "zipPath", "zipPublicUrl",
   "zipSizeBytes", "videosCount", "processingTimeMs", "processingTimeSeconds"}

\* A report that tells the number of fetched videos and, in a field of its
\* own, the number of requested videos or the failed ones.
TellsTheFailedSubset(report) ==
  /\ "videosCount" \in report.keys
  /\ report.videosCount = SuccessCount
  /\ report.keys \ PlainReportKeys # {}

\* C27: when a job succeeds although some fetches failed, the response and the
\* success notification carry the number of fetched videos and also the number
\* of requested videos, so that the caller can tell that videos are missing.
C27_ReportTellsTheFailedSubset ==
  (response.status = 200 /\ rejected # {}) =>
    /\ TellsTheFailedSubset(response)
    /\ \A j \in 1..Len(notifications) : TellsTheFailedSubset(notifications[j])

\* C28: a job that passed validation and has a webhook makes exactly one
\* notification attempt, none before its outcome is known: the success
\* notification only after the upload has succeeded, the failure notification
\* only after the fatal error was caught; its kind is that of the response,
\* success with 200 and error with 500. A job without a webhook makes none.
C28_OneNotificationAfterTheOutcome ==
  /\ Len(notifications) <= 1
  /\ notifications # <<>> => webhook = "present"
  /\ pc \in {"start", "awaitBatch", "finalize", "closing", "sending", "backoff",
              "notify", "catch", "catchNotify"} => notifications = <<>>
  /\ \A j \in 1..Len(notifications) :
       /\ notifications[j].kind = "success" =>
            (UploadSucceeded /\ error = NoError /\ pc \in {"cleanup", "done"})
       /\ notifications[j].kind = "error" =>
            (error # NoError /\ notifications[j].error = error /\ pc = "done")
  /\ (pc = "done" /\ Len(videos) > 0) =>
       /\ webhook \in {"absent", "present"}
       /\ webhook = "absent" => notifications = <<>>
       /\ webhook = "present" =>
            /\ Len(notifications) = 1
            /\ notifications[1].kind = "success" <=> response.status = 200
            /\ notifications[1].kind = "error" <=> response.status = 500

\* A job with a webhook whose upload failed has made its one notification, of
\* the failure, which was not delivered, and has answered 500.
C28_Witness ==
  /\ pc = "done"
  /\ response.status = 500
  /\ uploadLog # <<>>
  /\ Len(notifications) = 1
  /\ notifications[1].kind = "error"
  /\ ~notifications[1].delivered

\* C29: every request receives exactly one response, whatever the remote
\* servers do: the response is sent when the handler ends and not before, and
\* as long as the handler has not ended some step of it can still be taken,
\* also after the response of a fetch was aborted behind its headers.
C29_EveryRequestIsAnswered ==
  /\ response # NoResponse <=> pc = "done"
  /\ pc = "done" \/ ENABLED NextAbort

\* Each attempt that ended with the request timeout ended no sooner than the
\* timeout allows, 3600 s after it started.
TimeoutsAreDue ==
  \A a \in 1..Len(uploadLog) :
    uploadLog[a].answer.kind = "timeout" =>
      uploadLog[a].end - uploadLog[a].start >= uploadTimeoutSecs

\* C30: every upload attempt of a job, the retries after a timed-out attempt
\* and its backoff included, starts within the validity of the pre-signed URL:
\* no later than 3600 s after the X-Amz-Date, which is computed once, before
\* the first attempt.
C30_AttemptsStartWithinTheUrlValidity ==
  TimeoutsAreDue =>
    /\ \A a \in 1..Len(uploadLog) : uploadLog[a].start - uploadUrl.amzDate <= 3600
    /\ pc = "sending" => attemptStart - uploadUrl.amzDate <= 3600

(* --------------------------------------------------- the router variant *)

\* src/server.js, router.post('/generate-zip'): the videos are fetched into
\* memory in batches, zipped in memory and sent with one PUT. The state is
\* that of the streaming handler as far as it applies: no temp file is
\* written, `archive` holds the entries of the JSZip object, taskResult the
\* values the batch callbacks returned.

\* How downloadVideoWithTimeout settles: it resolves with the body on 'end', or
\* it rejects on a status other than 200, on a response or request error, or
\* when the 60 s timer fires.
RouterOutcomes == {"ok", "status", "network", "timeout"}

\* throw new Error(`Falha ao baixar vídeo: ${video.filename}`)
FetchErrorMessage(video) == <<"Falha", "ao", "baixar", "video:">> \o video.filename

\* return { filename: cleanFilename, buffer }: the buffer of the k-th video is
\* named by its index.
Downloaded(k) == [filename |-> cleanFilename(videos[k + 1].filename), buffer |-> k]

\* const host = `${bucketName}.${accountId}.r2.cloudflarestorage.com`
BucketHost(cfg) == cfg.bucketName \o <<".">> \o cfg.accountId \o <<".">> \o StoreHost

\* generateR2SignedUrl(accountId, accessKeyId, secretAccessKey, bucketName,
\* objectKey, 'PUT'): the signature is computed over the canonical request, with
\* an empty canonical query string; the value returned is
\* `https://${host}${canonicalUri}`.
generateR2SignedUrl(cfg, objectKey, t) ==
  LET host == BucketHost(cfg)
      canonicalUri == <<"/">> \o objectKey
      signature == ToString([key |-> cfg.secretAccessKey, date |-> t,
                             canonicalRequest |-> <<"PUT">> \o canonicalUri \o host])
  IN <<"https://">> \o host \o canonicalUri

\* fetch(uploadUrl, { method: 'PUT', body: zipBuffer, headers: { 'Content-Type':
\* 'application/zip', 'Content-Length': zipSizeBytes.toString() } }): the request
\* that is sent, the URL taken apart as the URL parser does.
FetchRequest(href, size) ==
  LET url == ParseUrl(href)
  IN [method |-> "PUT", hostname |-> url.hostname,
      pathname |-> url.pathname, search |-> url.search,
      headers |-> {"Content-Type", "Content-Length"},
      contentType |-> "application/zip", contentLength |-> size]

\* How the PUT ends: fetch resolves with a response of any status, or rejects
\* when the connection fails.
FetchAnswers ==
  { Answer("status", 200, <<>>, "none"),
    Answer("status", 403, <<"AccessDenied">>, "none"),
    Answer("error", 0, <<>>, "ECONNRESET") }

\* if (!uploadResponse.ok) throw new Error(`Upload falhou: ${uploadResponse.status}`);
\* a rejected fetch throws its own error.
FetchErrorOf(answer) ==
  IF answer.kind = "status" THEN <<"Upload", "falhou:", ToString(answer.status)>>
  ELSE <<"fetch", "failed">>

RECURSIVE ZipFilesKeepFirst(_, _)
ZipFilesKeepFirst(zip, list) ==
  IF list = <<>> THEN zip
  ELSE LET f == Head(list)
           added ==
             IF \E j \in 1..Len(zip) : zip[j].name = f.filename
               THEN zip
               ELSE Append(zip, [name |-> f.filename, content |-> f.buffer])
       IN ZipFilesKeepFirst(added, Tail(list))

RECURSIVE ZipFiles(_, _)
\* zip.file(filename, buffer) for each element of `list`, in order, on the JSZip
\* object `zip`: a name the object holds already keeps its place and takes the
\* new content, a new name is added behind the others.
ZipFiles(zip, list) ==
  IF list = <<>> THEN zip
  ELSE LET f == Head(list)
           added ==
             IF \E j \in 1..Len(zip) : zip[j].name = f.filename
               THEN [j \in 1..Len(zip) |->
                       IF zip[j].name = f.filename
                         THEN [name |-> f.filename, content |-> f.buffer]
                         ELSE zip[j]]
               ELSE Append(zip, [name |-> f.filename, content |-> f.buffer])
       IN ZipFiles(added, Tail(list))

\* The loop head of processBatch with index `start` and results `results`, up
\* to the next await: the next batch's downloads are started; or, the loop
\* over, processBatch returns, the handler adds every result to a new JSZip
\* object and calls zip.generateAsync.
RouterLoopHead(start, results) ==
  IF start < Len(videos)
    THEN /\ task' = [k \in Indices |->
                       IF k \in BatchOf(start) THEN "downloading" ELSE task[k]]
         /\ pc' = "awaitBatch"
         /\ UNCHANGED archive
    ELSE /\ archive' = ZipFiles(<<>>, results)
         /\ pc' = "generate"
         /\ UNCHANGED task

\* The handler is called: validation, then the first batch.
RouterStart ==
  /\ pc = "start"
  /\ IF Invalid(videos)
       THEN /\ pc' = "done"
            /\ response' = InvalidBody
            /\ UNCHANGED <<task, archive>>
       ELSE /\ RouterLoopHead(0, <<>>)
            /\ UNCHANGED response
  /\ UNCHANGED <<videos, i, taskPath, taskResult, lastActivity, rejected,
                 downloadResults, tempFiles, zipPath, zipFile, error, webhook,
                 notifications, files, now>>
  /\ UNCHANGED uploadVars
  /\ UNCHANGED envVars

\* The download of video k settles. When it resolves the callback returns the
\* clean filename and the buffer. When it rejects the callback throws: the
\* Promise.all of the batch rejects with this error at once, processBatch
\* rejects, and the handler's catch block is entered; the other downloads of
\* the batch go on, their results are used by nothing.
RouterFetchSettle(k, outcome) ==
  /\ task[k] = "downloading"
  /\ IF outcome = "ok"
       THEN /\ task' = [task EXCEPT ![k] = "done"]
            /\ taskResult' = [taskResult EXCEPT ![k] = Downloaded(k)]
            /\ UNCHANGED <<rejected, pc, error>>
       ELSE /\ task' = [task EXCEPT ![k] = outcome]
            /\ rejected' = rejected \cup {k}
            /\ UNCHANGED taskResult
            /\ IF pc = "awaitBatch"
                 THEN /\ pc' = "catchNotify"
                      /\ error' = FetchErrorMessage(videos[k + 1])
                 ELSE UNCHANGED <<pc, error>>
  /\ UNCHANGED <<videos, i, taskPath, lastActivity, downloadResults, tempFiles,
                 zipPath, zipFile, archive, webhook, notifications, response, files,
                 now>>
  /\ UNCHANGED uploadVars
  /\ UNCHANGED envVars

\* const batchResults = await Promise.all(...) resolves: every callback of the
\* batch has returned. results.push(...batchResults), then the loop head again.
RouterBatchDone ==
  /\ pc = "awaitBatch"
  /\ BatchSettled(i)
  /\ LET results == downloadResults
                      \o InOrder(taskResult, i, Min(i + batchSize, Len(videos)))
     IN /\ downloadResults' = results
        /\ i' = i + batchSize
        /\ RouterLoopHead(i + batchSize, results)
  /\ UNCHANGED <<videos, taskPath, taskResult, lastActivity, rejected, tempFiles,
                 zipPath, zipFile, error, webhook, notifications, response, files,
                 now>>
  /\ UNCHANGED uploadVars
  /\ UNCHANGED envVars

\* await zip.generateAsync(...) settles. Then, up to the next await: the object
\* key is built, generateR2SignedUrl is called and its URL is fetched with PUT.
\* productCode and r2Config are read here for the first time: a request
\* without r2Config throws.
RouterBeginUpload(configs, products) ==
  /\ pc = "generate"
  /\ \/ \E cfg \in configs, product \in products :
          /\ r2Config' = cfg
          /\ productCode' = product
          /\ uploadUrl' = [signed |-> TRUE, amzDate |-> now, expires |-> 0,
                           href |-> generateR2SignedUrl(cfg, R2Path(product, now), now)]
          /\ attempt' = 1
          /\ attemptStart' = now
          /\ pc' = "sending"
          /\ UNCHANGED error
     \/ /\ pc' = "catchNotify"
        /\ error' = NoConfigMessage
        /\ UNCHANGED <<r2Config, productCode, uploadUrl, attempt, attemptStart>>
  /\ UNCHANGED <<videos, zipPath, zipFile, archive, webhook, notifications, response,
                 files, now, timerDue, uploadLog>>
  /\ UNCHANGED fetchVars
  /\ UNCHANGED envVars

\* await fetch(uploadUrl, ...) settles with the store's answer; a response that
\* is not ok throws.
RouterUploadSettle(answer) ==
  /\ pc = "sending"
  /\ uploadLog' = Append(uploadLog,
                    [n |-> attempt, start |-> attemptStart, end |-> now,
                     ok |-> Resolves(answer), answer |-> answer,
                     request |-> FetchRequest(uploadUrl.href, ZipSize)])
  /\ IF Resolves(answer)
       THEN /\ pc' = "notify"
            /\ UNCHANGED error
       ELSE /\ pc' = "catchNotify"
            /\ error' = FetchErrorOf(answer)
  /\ UNCHANGED <<videos, zipPath, zipFile, archive, r2Config, productCode, uploadUrl,
                 attempt, attemptStart, timerDue, webhook, notifications, response,
                 files, now>>
  /\ UNCHANGED fetchVars
  /\ UNCHANGED envVars

\* videosCount: videos.length
RouterVideosCount == Len(videos)

\* The success notification's payload: { projectId, userId, zipPath,
\* zipPublicUrl, zipSizeBytes, videosCount, processingTimeMs }
RouterSuccessPayload(delivered) ==
  [kind |-> "success", videosCount |-> RouterVideosCount, error |-> NoError,
   delivered |-> delivered,
   keys |-> {"projectId", "userId", "zipPath", "zipPublicUrl", "zipSizeBytes",
             "videosCount", "processingTimeMs"}]

\* The failure notification's payload: { projectId, userId, error }
RouterFailurePayload(message, delivered) ==
  [kind |-> "error", videosCount |-> 0, error |-> message, delivered |-> delivered,
   keys |-> {"projectId", "userId", "error"}]

\* Success tail: the notification if a webhook was given, a failed delivery
\* being logged and swallowed, then res.json({ success: true, zipPath,
\* zipPublicUrl, zipSizeBytes, videosCount, processingTimeSeconds }).
RouterNotifyRespond ==
  /\ pc = "notify"
  /\ \E hook \in {"absent", "present"}, outcome \in WebhookOutcomes :
       /\ webhook' = hook
       /\ notifications' =
            Notified(notifications, hook, RouterSuccessPayload(Delivered(outcome)))
  /\ response' = [SuccessBody(<<>>) EXCEPT !.videosCount = RouterVideosCount]
  /\ pc' = "done"
  /\ UNCHANGED <<videos, zipPath, zipFile, archive, error, files, now>>
  /\ UNCHANGED fetchVars
  /\ UNCHANGED uploadVars
  /\ UNCHANGED envVars

\* catch (error): the failure notification if a webhook was given, then
\* res.status(500).json({ success: false, error: error.message }).
RouterCatch ==
  /\ pc = "catchNotify"
  /\ \E hook \in {"absent", "present"}, outcome \in WebhookOutcomes :
       /\ webhook' = hook
       /\ notifications' =
            Notified(notifications, hook,
                     RouterFailurePayload(error, Delivered(outcome)))
  /\ response' = FailureBody(error)
  /\ pc' = "done"
  /\ UNCHANGED <<videos, zipPath, zipFile, archive, error, files, now>>
  /\ UNCHANGED fetchVars
  /\ UNCHANGED uploadVars
  /\ UNCHANGED envVars

InitRouter == Init /\ Len(videos) <= MaxVideosRouter

NextRouter ==
  \/ RouterStart
  \/ \E k \in Indices, outcome \in RouterOutcomes : RouterFetchSettle(k, outcome)
  \/ RouterBatchDone
  \/ RouterBeginUpload(BasicConfigs \cup MoreConfigs, BasicProducts \cup MoreProducts)
  \/ \E answer \in FetchAnswers : RouterUploadSettle(answer)
  \/ RouterNotifyRespond
  \/ RouterCatch

SpecRouter == InitRouter /\ [][NextRouter]_vars

(* ------------------------------------------- claims on the router variant *)

\* Every video of the request has been fetched or has failed, k of the n
\* having failed, 0 < k < n.
SomeButNotAllFailed ==
  /\ \A k \in Indices : task[k] \notin {"idle", "downloading"}
  /\ rejected # {}
  /\ Cardinality(rejected) < Len(videos)

\* C31: in the router variant a fetch failure is captured per asset and does
\* not fail the job: when k of the n assets have failed, 0 < k < n, and the
\* handler has ended, the error it answers with, if any, is not that of a
\* fetch, the archive was built of the n - k fetched assets and of no other,
\* an upload was attempted when the store configuration was given, and a
\* success response reports n - k as videosCount.
C31_RouterFetchFailureIsContained ==
  (pc = "done" /\ SomeButNotAllFailed) =>
    /\ \A k \in rejected : response.error # FetchErrorMessage(videos[k + 1])
    /\ archive # <<>>
    /\ \A j \in 1..Len(archive) : archive[j].content \in Indices \ rejected
    /\ \A k \in Indices \ rejected :
         \E j \in 1..Len(archive) :
           archive[j].name = cleanFilename(videos[k + 1].filename)
    /\ r2Config # NoConfig => uploadLog # <<>>
    /\ response.status = 200 =>
         response.videosCount = Len(videos) - Cardinality(rejected)

\* C32: in the router variant the URL that generateR2SignedUrl returns, and
\* that the PUT is sent to, carries the computed authorization in its query
\* string: the algorithm, the credential, the date, the expiry, the signed
\* headers and the signature.
C32_RouterUrlEmbedsTheAuthorization ==
  /\ uploadUrl # NoUrl =>
       SigningNames \subseteq QueryNames(ParseUrl(uploadUrl.href).search)
  /\ \A a \in 1..Len(uploadLog) :
       SigningNames \subseteq QueryNames(uploadLog[a].request.search)

(* ------------------------------------------------ the in-memory variant *)

\* src/server.js, app.post('/generate-zip'): as the router variant, with a
\* processBatch that returns a result for every video, a URL signed in the
\* handler and a PUT sent with https.request.

\* for (const { video, buffer } of successfulDownloads) { const cleanFilename =
\* video.filename.replace(...); zip.file(cleanFilename, buffer) }: the names and
\* buffers given to zip.file, in order.
ZipInputs(successful) ==
  [j \in 1..Len(successful) |->
     [filename |-> cleanFilename(videos[successful[j].idx + 1].filename),
      buffer |-> successful[j].buffer]]

\* const uploadUrl = `https://${host}${canonicalUri}?X-Amz-Algorithm=...
\*   &X-Amz-Credential=...&X-Amz-Date=...&X-Amz-Expires=3600
\*   &X-Amz-SignedHeaders=host;x-amz-date&X-Amz-Signature=${signature}`, with
\* canonicalUri = `/${r2Path}` and the bucket in the host
MemoryUploadUrl(cfg, product, t) ==
  LET canonicalUri == <<"/">> \o R2Path(product, t)
      signature == ToString([key |-> cfg.secretAccessKey, date |-> t,
                             canonicalRequest |-> <<"PUT">> \o canonicalUri
                                                    \o BucketHost(cfg)])
  IN <<"https://">> \o BucketHost(cfg) \o canonicalUri
       \o <<"?", "X-Amz-Algorithm", "=", "AWS4-HMAC-SHA256",
            "&", "X-Amz-Credential", "=">> \o Credential(cfg, t)
       \o <<"&", "X-Amz-Date", "=", ToString(t),
            "&", "X-Amz-Expires", "=", ToString(urlExpiresSecs),
            "&", "X-Amz-SignedHeaders", "=", "host;x-amz-date",
            "&", "X-Amz-Signature", "=", signature>>

\* The loop head of processBatch with index `start` and results `results`, up
\* to the next await: the next batch's downloads are started; or, the loop
\* over, processBatch returns, the handler filters the results and either
\* throws the no-assets error or adds every successful download to a new JSZip
\* object and calls zip.generateAsync.
MemoryLoopHead(start, results) ==
  IF start < Len(videos)
    THEN /\ task' = [k \in Indices |->
                       IF k \in BatchOf(start) THEN "downloading" ELSE task[k]]
         /\ pc' = "awaitBatch"
         /\ UNCHANGED <<archive, error>>
    ELSE IF NoAssets(results)
      THEN /\ pc' = "catchNotify"
           /\ error' = NoAssetsMessage
           /\ UNCHANGED <<task, archive>>
      ELSE /\ archive' = ZipFiles(<<>>, ZipInputs(Successful(results)))
           /\ pc' = "generate"
           /\ UNCHANGED <<task, error>>

\* The handler is called: validation, then the first batch.
MemoryStart ==
  /\ pc = "start"
  /\ IF Invalid(videos)
       THEN /\ pc' = "done"
            /\ response' = InvalidBody
            /\ UNCHANGED <<task, archive, error>>
       ELSE /\ MemoryLoopHead(0, <<>>)
            /\ UNCHANGED response
  /\ UNCHANGED <<videos, i, taskPath, taskResult, lastActivity, rejected,
                 downloadResults, tempFiles, zipPath, zipFile, webhook,
                 notifications, files, now>>
  /\ UNCHANGED uploadVars
  /\ UNCHANGED envVars

\* The download of video k settles and its callback returns
\* { success: true, video, buffer } or, from its catch,
\* { success: false, video, error }.
MemoryFetchSettle(k, outcome) ==
  /\ task[k] = "downloading"
  /\ task' = [task EXCEPT ![k] = "done"]
  /\ taskResult' = [taskResult EXCEPT ![k] =
                      [success |-> outcome = "ok", idx |-> k, buffer |-> k]]
  /\ rejected' = IF outcome = "ok" THEN rejected ELSE rejected \cup {k}
  /\ UNCHANGED <<videos, pc, i, taskPath, lastActivity, downloadResults, tempFiles,
                 zipPath, zipFile, archive, error, webhook, notifications, response,
                 files, now>>
  /\ UNCHANGED uploadVars
  /\ UNCHANGED envVars

\* const batchResults = await Promise.all(...) resolves: every callback of the
\* batch has returned. results.push(...batchResults), then the loop head again.
MemoryBatchDone ==
  /\ pc = "awaitBatch"
  /\ BatchSettled(i)
  /\ LET results == downloadResults
                      \o InOrder(taskResult, i, Min(i + batchSize, Len(videos)))
     IN /\ downloadResults' = results
        /\ i' = i + batchSize
        /\ MemoryLoopHead(i + batchSize, results)
  /\ UNCHANGED <<videos, taskPath, taskResult, lastActivity, rejected, tempFiles,
                 zipPath, zipFile, webhook, notifications, response, files, now>>
  /\ UNCHANGED uploadVars
  /\ UNCHANGED envVars

\* await zip.generateAsync(...) settles. Then, up to the next await: the object
\* key is built, the URL is signed and the PUT is sent. productCode and
\* r2Config are read here for the first time: a request without r2Config
\* throws.
MemoryBeginUpload(configs, products) ==
  /\ pc = "generate"
  /\ \/ \E cfg \in configs, product \in products :
          /\ r2Config' = cfg
          /\ productCode' = product
          /\ uploadUrl' = [signed |-> TRUE, amzDate |-> now,
                           expires |-> urlExpiresSecs,
                           href |-> MemoryUploadUrl(cfg, product, now)]
          /\ attempt' = 1
          /\ attemptStart' = now
          /\ pc' = "sending"
          /\ UNCHANGED error
     \/ /\ pc' = "catchNotify"
        /\ error' = NoConfigMessage
        /\ UNCHANGED <<r2Config, productCode, uploadUrl, attempt, attemptStart>>
  /\ UNCHANGED <<videos, zipPath, zipFile, archive, webhook, notifications, response,
                 files, now, timerDue, uploadLog>>
  /\ UNCHANGED fetchVars
  /\ UNCHANGED envVars

\* The promise around https.request settles: resolve() on a status of 200..299,
\* reject(new Error(`Upload falhou: ${res.statusCode}`)) on another status,
\* reject on a request error.
MemoryUploadSettle(answer) ==
  /\ pc = "sending"
  /\ uploadLog' = Append(uploadLog,
                    [n |-> attempt, start |-> attemptStart, end |-> now,
                     ok |-> Resolves(answer), answer |-> answer,
                     request |-> RequestOptions(uploadUrl.href, ZipSize)])
  /\ IF Resolves(answer)
       THEN /\ pc' = "notify"
            /\ UNCHANGED error
       ELSE /\ pc' = "catchNotify"
            /\ error' = IF answer.kind = "status" THEN FetchErrorOf(answer)
                        ELSE NetError(answer.code).message
  /\ UNCHANGED <<videos, zipPath, zipFile, archive, r2Config, productCode, uploadUrl,
                 attempt, attemptStart, timerDue, webhook, notifications, response,
                 files, now>>
  /\ UNCHANGED fetchVars
  /\ UNCHANGED envVars

\* Success tail: the notification if a webhook was given, a failed delivery
\* being logged and swallowed, then res.json({ success: true, ..., videosCount:
\* successfulDownloads.length, ... }).
MemoryNotifyRespond ==
  /\ pc = "notify"
  /\ \E hook \in {"absent", "present"}, outcome \in WebhookOutcomes :
       /\ webhook' = hook
       /\ notifications' =
            Notified(notifications, hook,
                     [RouterSuccessPayload(Delivered(outcome))
                        EXCEPT !.videosCount = VideosCount(downloadResults)])
  /\ response' = SuccessBody(downloadResults)
  /\ pc' = "done"
  /\ UNCHANGED <<videos, zipPath, zipFile, archive, error, files, now>>
  /\ UNCHANGED fetchVars
  /\ UNCHANGED uploadVars
  /\ UNCHANGED envVars

InitMemory == Init /\ Len(videos) <= MaxVideosMemory

\* The catch block is, word for word, that of the router variant.
NextMemory ==
  \/ MemoryStart
  \/ \E k \in Indices, outcome \in RouterOutcomes : MemoryFetchSettle(k, outcome)
  \/ MemoryBatchDone
  \/ MemoryBeginUpload(BasicConfigs \cup MoreConfigs, BasicProducts \cup MoreProducts)
  \/ \E answer \in FetchAnswers : MemoryUploadSettle(answer)
  \/ MemoryNotifyRespond
  \/ RouterCatch

SpecMemory == InitMemory /\ [][NextMemory]_vars

(* ---------------------------------------- claims on the in-memory variant *)

\* The videos that were fetched with success whose filename sanitizes to `name`.
FetchedAs(name) ==
  {k \in Indices : /\ task[k] = "done"
                   /\ k \notin rejected
                   /\ cleanFilename(videos[k + 1].filename) = name}

Max(S) == CHOOSE m \in S : \A k \in S : k <= m

\* C33: in the in-memory variant, once the archive is built it holds one entry
\* for each name that a fetched asset sanitizes to, no two entries of the same
\* name, and the content of an entry is that of the last fetched asset of that
\* name in input order; the videosCount of a success response counts every
\* fetched asset, those of a shared name included.
C33_LastWriteWinsAndEveryFetchCounts ==
  /\ pc \in {"generate", "sending", "notify"} \/ (pc = "done" /\ archive # <<>>) =>
       /\ \A a, b \in 1..Len(archive) : archive[a].name = archive[b].name => a = b
       /\ \A a \in 1..Len(archive) :
            /\ FetchedAs(archive[a].name) # {}
            /\ archive[a].content = Max(FetchedAs(archive[a].name))
       /\ \A k \in Indices \ rejected :
            \E a \in 1..Len(archive) :
              archive[a].name = cleanFilename(videos[k + 1].filename)
  /\ response.status = 200 =>
       response.videosCount = Cardinality(Indices \ rejected)

\* A job of three videos, all fetched, has succeeded: the first and the third,
\* "a b.mp4" and "a/b.mp4", share the name a_b.mp4, the archive has two entries,
\* the first of them a_b.mp4 with the content of the third video, and the
\* response counts three videos.
C33_Witness ==
  /\ pc = "done"
  /\ response.status = 200
  /\ Len(videos) = 3
  /\ rejected = {}
  /\ Len(archive) = 2
  /\ archive[1].name = <<"a", "_", "b", ".", "m", "p", "4">>
  /\ archive[1].content = 2
  /\ response.videosCount = 3
====
